---- MODULE Spec2Model ----
(***************************************************************************)
(* The Vertex AI streaming provider (streamVertexAI): conversion of a      *)
(* Context into the wire request, the HTTP exchange, the incremental SSE   *)
(* parser over the response bytes and the block assembler that turns the   *)
(* decoded chunks into the event stream.                                   *)
(*                                                                         *)
(* Encoding of the wire.  A byte of the response body is a record          *)
(* [b |-> c].  Framing characters are themselves ("d", "a", "t", ":", " ", *)
(* "\n", "{", "}", the string quote).  The two bytes "c3" "a9" are the     *)
(* UTF-8 encoding of the one character "e'".  A record                     *)
(* [b |-> "json", v |-> x] stands for the span of ASCII bytes that is the  *)
(* JSON text of x (a functionCall part, a finishReason, a usageMetadata).  *)
(* A text part is written on the wire as a quoted run of characters.       *)
(***************************************************************************)
EXTENDS Integers, Sequences, FiniteSets, TLC

Streams == {"s1", "s2"}

B(c) == [b |-> c]
J(x) == [b |-> "json", v |-> x]
NL == B("\n")
Has(r, f) == f \in DOMAIN r

Last(q) == q[Len(q)]
Front(q) == SubSeq(q, 1, Len(q) - 1)

RECURSIVE Flatten(_)
Flatten(qq) == IF qq = <<>> THEN <<>> ELSE Head(qq) \o Flatten(Tail(qq))

(***************************************************************************)
(* TextDecoder.decode(value, {stream: true}): UTF-8 decoding that keeps an *)
(* incomplete multi-byte sequence for the next call.  "c3" is a lead byte, *)
(* "a9" its continuation; a lead not followed by a continuation and a lone *)
(* continuation decode to U+FFFD.                                          *)
(***************************************************************************)
RECURSIVE DecodeFrom(_, _, _, _)
DecodeFrom(pend, bytes, i, out) ==
  IF i > Len(bytes) THEN [out |-> out, pend |-> pend]
  ELSE LET x == bytes[i] IN
    IF pend # <<>>
      THEN IF x.b = "a9"
             THEN DecodeFrom(<<>>, bytes, i + 1, Append(out, B("e'")))
             ELSE DecodeFrom(<<>>, bytes, i, Append(out, B("U+FFFD")))
      ELSE IF x.b = "c3" THEN DecodeFrom(<<x>>, bytes, i + 1, out)
           ELSE IF x.b = "a9" THEN DecodeFrom(<<>>, bytes, i + 1, Append(out, B("U+FFFD")))
           ELSE DecodeFrom(<<>>, bytes, i + 1, Append(out, x))

decode(pend, value) == DecodeFrom(pend, value, 1, <<>>)

(***************************************************************************)
(* buffer.split("\n"): the segments between newlines, n+1 of them for n    *)
(* newlines; the last one is the trailing partial line.                    *)
(***************************************************************************)
RECURSIVE SplitFrom(_, _, _, _)
SplitFrom(text, i, cur, acc) ==
  IF i > Len(text) THEN Append(acc, cur)
  ELSE IF text[i] = NL THEN SplitFrom(text, i + 1, <<>>, Append(acc, cur))
       ELSE SplitFrom(text, i + 1, Append(cur, text[i]), acc)

split(text) == SplitFrom(text, 1, <<>>, <<>>)

IsSpace(x) == x.b \in {" ", "\r", "\t"}

\* String.prototype.trim
RECURSIVE TrimLeft(_)
TrimLeft(q) == IF q # <<>> /\ IsSpace(Head(q)) THEN TrimLeft(Tail(q)) ELSE q
RECURSIVE TrimRight(_)
TrimRight(q) == IF q # <<>> /\ IsSpace(Last(q)) THEN TrimRight(Front(q)) ELSE q
trim(q) == TrimRight(TrimLeft(q))

\* the trailing partial line thrown away instead of kept
Rebuffer_Drop(lines) == <<>>

\* the last complete line left in the buffer with its newline
Rebuffer_KeepLine(lines) ==
  IF Len(lines) >= 2
    THEN lines[Len(lines) - 1] \o <<NL>> \o Last(lines)
    ELSE Last(lines)

\* buffer = lines.pop() || ""
Rebuffer(lines) == Last(lines)

DataPrefix == <<B("d"), B("a"), B("t"), B("a"), B(":"), B(" ")>>
DataPrefixLen == 6
DoneSentinel == <<B("[DONE]")>>

startsWith(q, p) == Len(q) >= Len(p) /\ SubSeq(q, 1, Len(p)) = p
slice(q, n) == SubSeq(q, n + 1, Len(q))

(***************************************************************************)
(* JSON.parse of one data payload.  A well-formed payload is "{" items "}" *)
(* (surrounding white space allowed); an item is a quoted run of           *)
(* characters (a text part), or the JSON text of a part, of a finishReason *)
(* or of a usageMetadata.  Anything else is a SyntaxError.                 *)
(***************************************************************************)
SyntaxError == [ok |-> FALSE]

RECURSIVE ParseItems(_, _, _)
ParseItems(q, i, chunk) ==
  IF i > Len(q) THEN [ok |-> TRUE, chunk |-> chunk]
  ELSE LET x == q[i] IN
    IF x.b = "json"
      THEN IF Has(x.v, "finishReason")
             THEN ParseItems(q, i + 1, [chunk EXCEPT !.finishReason = x.v.finishReason])
           ELSE IF Has(x.v, "usageMetadata")
             THEN ParseItems(q, i + 1,
                    [parts |-> chunk.parts, finishReason |-> chunk.finishReason,
                     usageMetadata |-> x.v.usageMetadata])
           ELSE ParseItems(q, i + 1, [chunk EXCEPT !.parts = Append(@, x.v)])
    ELSE IF x.b = "\""
      THEN LET closes == {k \in (i + 1)..Len(q) : q[k].b = "\""} IN
           IF closes = {} THEN SyntaxError
           ELSE LET k == CHOOSE c \in closes : \A d \in closes : c <= d
                    inner == SubSeq(q, i + 1, k - 1)
                IN IF \E m \in 1..Len(inner) : inner[m].b = "json" THEN SyntaxError
                   ELSE ParseItems(q, k + 1,
                          [chunk EXCEPT !.parts =
                             Append(@, [text |-> [m \in 1..Len(inner) |-> inner[m].b]])])
    ELSE SyntaxError

JSONparse(data) ==
  LET t == trim(data) IN
  IF Len(t) >= 2 /\ Head(t) = B("{") /\ Last(t) = B("}")
    THEN ParseItems(SubSeq(t, 2, Len(t) - 1), 1, [parts |-> <<>>, finishReason |-> ""])
    ELSE SyntaxError

(***************************************************************************)
(* Values.  A tool-call id is a record: [str |-> x] for a literal string   *)
(* (x = "" is the empty string; an absent id reads as that too, both are   *)
(* falsy), [name, ts, n] for the template literal                          *)
(* `${name}_${Date.now()}_${++toolCallCounter}`.                           *)
(***************************************************************************)
Str(x) == [str |-> x]
NoId == Str("")
Truthy(id) == id # NoId
Marker == "__openclaw_tool_call_id"
EmptyMap == [k \in {} |-> NoId]

SynthId(name, ts, n) == [name |-> name, ts |-> ts, n |-> n]
IsSynth(id) == Has(id, "n")

\* JSON.stringify of an arguments map: its key/value pairs
stringify(m) == {<<k, m[k]>> : k \in DOMAIN m}

\* the RECITATION case label left out
mapStopReason_NoRecitation(finishReason) ==
  IF finishReason = "" THEN "stop"
  ELSE CASE finishReason = "STOP" -> "stop"
         [] finishReason = "MAX_TOKENS" -> "length"
         [] finishReason = "SAFETY" -> "error"
         [] OTHER -> "stop"

\* the MAX_TOKENS case left out
mapStopReason_NoLength(finishReason) ==
  IF finishReason = "" THEN "stop"
  ELSE CASE finishReason = "STOP" -> "stop"
         [] finishReason \in {"SAFETY", "RECITATION"} -> "error"
         [] OTHER -> "stop"

mapStopReason(finishReason) ==
  IF finishReason = "" THEN "stop"
  ELSE CASE finishReason = "STOP" -> "stop"
         [] finishReason = "MAX_TOKENS" -> "length"
         [] finishReason \in {"SAFETY", "RECITATION"} -> "error"
         [] OTHER -> "stop"

(***************************************************************************)
(* The assembler.  st is the state one run of streamVertexAI works on:     *)
(*   content, stopReason, usage : the fields of `output`                   *)
(*   currentBlock : the open block, as its position in content (0 = null)  *)
(*   events       : what has been pushed to `stream`                       *)
(*   counter      : the module's toolCallCounter                           *)
(*   chunks       : the chunks JSON.parse returned (the "SSE chunk          *)
(*                  received" log)                                         *)
(*   warnings     : the number of "Failed to parse SSE chunk" warnings     *)
(*   model        : the Model the call was given                           *)
(***************************************************************************)
push(st, ev) == [st EXCEPT !.events = Append(@, ev)]

BlockText(e) == IF e.type = "text" THEN e.text ELSE e.thinking

\* the end event pointing one past the open block
EndEvent_IndexOffByOne(st) ==
  LET e == st.content[st.currentBlock] IN
  [type |-> IF e.type = "text" THEN "text_end" ELSE "thinking_end",
   contentIndex |-> Len(st.content),
   content |-> BlockText(e)]

\* the end event carrying an empty content
EndEvent_NoContent(st) ==
  LET e == st.content[st.currentBlock] IN
  [type |-> IF e.type = "text" THEN "text_end" ELSE "thinking_end",
   contentIndex |-> Len(st.content) - 1,
   content |-> <<>>]

\* text_end / thinking_end for the open block (contentIndex is content.length - 1)
EndEvent(st) ==
  LET e == st.content[st.currentBlock] IN
  [type |-> IF e.type = "text" THEN "text_end" ELSE "thinking_end",
   contentIndex |-> Len(st.content) - 1,
   content |-> BlockText(e)]

\* the text of the part assigned to the block instead of appended to it
TextPart_Overwrite(st, part) ==
  LET s1 == IF st.currentBlock # 0 /\ st.content[st.currentBlock].type = "thinking"
              THEN [push(st, EndEvent(st)) EXCEPT !.currentBlock = 0]
              ELSE st
      s2 == IF s1.currentBlock = 0
              THEN LET c == Append(s1.content, [type |-> "text", text |-> <<>>]) IN
                   push([s1 EXCEPT !.content = c, !.currentBlock = Len(c)],
                        [type |-> "text_start", contentIndex |-> Len(c) - 1])
              ELSE s1
  IN IF s2.content[s2.currentBlock].type = "text"
       THEN push([s2 EXCEPT !.content[s2.currentBlock].text = part.text],
                 [type |-> "text_delta", contentIndex |-> Len(s2.content) - 1,
                  delta |-> part.text])
       ELSE s2

\* if (part.text !== undefined) { ... }
TextPart(st, part) ==
  LET s1 == IF st.currentBlock # 0 /\ st.content[st.currentBlock].type = "thinking"
              THEN [push(st, EndEvent(st)) EXCEPT !.currentBlock = 0]
              ELSE st
      s2 == IF s1.currentBlock = 0
              THEN LET c == Append(s1.content, [type |-> "text", text |-> <<>>]) IN
                   push([s1 EXCEPT !.content = c, !.currentBlock = Len(c)],
                        [type |-> "text_start", contentIndex |-> Len(c) - 1])
              ELSE s1
  IN IF s2.content[s2.currentBlock].type = "text"
       THEN push([s2 EXCEPT !.content[s2.currentBlock].text = @ \o part.text],
                 [type |-> "text_delta", contentIndex |-> Len(s2.content) - 1,
                  delta |-> part.text])
       ELSE s2

\* the prologue left out: the tool call is appended while the block stays open
CloseForToolCall_Skip(st) == st

\* the block-closing prologue of the functionCall branch
CloseForToolCall(st) ==
  IF st.currentBlock # 0
    THEN [push(st, EndEvent(st)) EXCEPT !.currentBlock = 0]
    ELSE st

\* the server id tried before the echoed one
ResolveId_ServerFirst(echoedId, serverId, name, ts, counter) ==
  IF Truthy(serverId) THEN [id |-> serverId, counter |-> counter]
  ELSE IF Truthy(echoedId) THEN [id |-> echoedId, counter |-> counter]
  ELSE [id |-> SynthId(name, ts, counter + 1), counter |-> counter + 1]

\* the counter read without being incremented
ResolveId_NoIncrement(echoedId, serverId, name, ts, counter) ==
  IF Truthy(echoedId) THEN [id |-> echoedId, counter |-> counter]
  ELSE IF Truthy(serverId) THEN [id |-> serverId, counter |-> counter]
  ELSE [id |-> SynthId(name, ts, counter), counter |-> counter]

\* toolCallId = echoedId || serverId || `${name}_${Date.now()}_${++toolCallCounter}`
ResolveId(echoedId, serverId, name, ts, counter) ==
  IF Truthy(echoedId) THEN [id |-> echoedId, counter |-> counter]
  ELSE IF Truthy(serverId) THEN [id |-> serverId, counter |-> counter]
  ELSE [id |-> SynthId(name, ts, counter + 1), counter |-> counter + 1]

\* the delete left out
CleanArgs_Keep(args) == args

\* const cleanArgs = { ...args }; delete cleanArgs.__openclaw_tool_call_id
CleanArgs(args) == [k \in DOMAIN args \ {Marker} |-> args[k]]

\* contentIndex taken as content.length instead of content.length - 1
FunctionCallPart_IndexOffByOne(st, part, ts) ==
  LET s1 == CloseForToolCall(st)
      fc == part.functionCall
      args == IF Has(fc, "args") THEN fc.args ELSE EmptyMap
      echoedId == IF Marker \in DOMAIN args THEN args[Marker] ELSE NoId
      serverId == IF Has(fc, "id") THEN fc.id ELSE NoId
      r == ResolveId(echoedId, serverId, fc.name, ts, s1.counter)
      base == [type |-> "toolCall", id |-> r.id, name |-> fc.name,
               arguments |-> CleanArgs(args)]
      toolCall == IF Has(part, "thoughtSignature")
                    THEN [type |-> "toolCall", id |-> r.id, name |-> fc.name,
                          arguments |-> CleanArgs(args),
                          thoughtSignature |-> part.thoughtSignature]
                    ELSE base
      c == Append(s1.content, toolCall)
      s2 == [s1 EXCEPT !.content = c, !.counter = r.counter]
      s3 == push(s2, [type |-> "toolcall_start", contentIndex |-> Len(c)])
      s4 == push(s3, [type |-> "toolcall_delta", contentIndex |-> Len(c),
                      delta |-> stringify(toolCall.arguments)])
  IN push(s4, [type |-> "toolcall_end", contentIndex |-> Len(c),
               toolCall |-> toolCall])

\* if (part.functionCall) { ... }
FunctionCallPart(st, part, ts) ==
  LET s1 == CloseForToolCall(st)
      fc == part.functionCall
      args == IF Has(fc, "args") THEN fc.args ELSE EmptyMap
      echoedId == IF Marker \in DOMAIN args THEN args[Marker] ELSE NoId
      serverId == IF Has(fc, "id") THEN fc.id ELSE NoId
      r == ResolveId(echoedId, serverId, fc.name, ts, s1.counter)
      base == [type |-> "toolCall", id |-> r.id, name |-> fc.name,
               arguments |-> CleanArgs(args)]
      toolCall == IF Has(part, "thoughtSignature")
                    THEN [type |-> "toolCall", id |-> r.id, name |-> fc.name,
                          arguments |-> CleanArgs(args),
                          thoughtSignature |-> part.thoughtSignature]
                    ELSE base
      c == Append(s1.content, toolCall)
      s2 == [s1 EXCEPT !.content = c, !.counter = r.counter]
      s3 == push(s2, [type |-> "toolcall_start", contentIndex |-> Len(c) - 1])
      s4 == push(s3, [type |-> "toolcall_delta", contentIndex |-> Len(c) - 1,
                      delta |-> stringify(toolCall.arguments)])
  IN push(s4, [type |-> "toolcall_end", contentIndex |-> Len(c) - 1,
               toolCall |-> toolCall])

\* the body of `for (const part of candidate.content.parts)`
ProcessPart(st, part, ts) ==
  LET s1 == IF Has(part, "text") THEN TextPart(st, part) ELSE st
  IN IF Has(part, "functionCall") THEN FunctionCallPart(s1, part, ts) ELSE s1

RECURSIVE ProcessParts(_, _, _)
ProcessParts(st, parts, ts) ==
  IF parts = <<>> THEN st
  ELSE ProcessParts(ProcessPart(st, Head(parts), ts), Tail(parts), ts)

HasToolCall(content) == \E i \in 1..Len(content) : content[i].type = "toolCall"

\* the first finishReason kept: later ones do not set the stop reason
ApplyFinishReason_FirstWins(st, chunk) ==
  IF chunk.finishReason # ""
     /\ \A i \in 1..(Len(st.chunks) - 1) : st.chunks[i].finishReason = ""
    THEN [st EXCEPT !.stopReason =
            IF HasToolCall(st.content) THEN "toolUse"
            ELSE mapStopReason(chunk.finishReason)]
    ELSE st

\* if (candidate?.finishReason) { ... }
ApplyFinishReason(st, chunk) ==
  IF chunk.finishReason # ""
    THEN [st EXCEPT !.stopReason =
            IF HasToolCall(st.content) THEN "toolUse"
            ELSE mapStopReason(chunk.finishReason)]
    ELSE st

Count(u, f) == IF Has(u, f) THEN u[f] ELSE 0

\* the counts added to the running totals instead of replacing them
ApplyUsage_Adds(st, chunk) ==
  IF Has(chunk, "usageMetadata")
    THEN LET u == chunk.usageMetadata IN
         [st EXCEPT !.usage = [input |-> @.input + Count(u, "promptTokenCount"),
                               output |-> @.output + Count(u, "candidatesTokenCount"),
                               totalTokens |-> @.totalTokens + Count(u, "totalTokenCount")]]
    ELSE st

\* if (chunk.usageMetadata) { ... }
ApplyUsage(st, chunk) ==
  IF Has(chunk, "usageMetadata")
    THEN LET u == chunk.usageMetadata IN
         [st EXCEPT !.usage = [input |-> Count(u, "promptTokenCount"),
                               output |-> Count(u, "candidatesTokenCount"),
                               totalTokens |-> Count(u, "totalTokenCount")]]
    ELSE st

\* a JSON null among the parts: `part.text` on it throws a TypeError
NullPart == [null |-> TRUE]

\* the position of the first part whose processing throws, 0 when none does
FirstThrow(parts) ==
  LET bad == {i \in 1..Len(parts) : Has(parts[i], "null")} IN
  IF bad = {} THEN 0 ELSE CHOOSE i \in bad : \A j \in bad : i <= j

\* calculateCost(model, usage) reads the prices of model.cost: it throws a
\* TypeError on a model that has none
calculateCostThrows(model) == ~Has(model, "cost")

\* catch (err) { console.warn("Failed to parse SSE chunk:", err) }
Warn(st) == [st EXCEPT !.warnings = @ + 1]

\* the part that throws skipped on its own: the rest of the chunk is applied
ProcessChunk_SkipsPart(st, chunk, ts) ==
  LET s0 == [st EXCEPT !.chunks = Append(@, chunk)]
      s1 == ProcessParts(s0, chunk.parts, ts)
      s2 == ApplyFinishReason(s1, chunk)
      s3 == ApplyUsage(s2, chunk)
  IN IF FirstThrow(chunk.parts) > 0
          \/ (Has(chunk, "usageMetadata") /\ calculateCostThrows(st.model))
       THEN Warn(s3)
       ELSE s3

\* the try block run on one decoded chunk, and its catch: what the chunk did
\* before it threw stays, the rest of the chunk is skipped
ProcessChunk(st, chunk, ts) ==
  LET s0 == [st EXCEPT !.chunks = Append(@, chunk)]
      k == FirstThrow(chunk.parts)
  IN IF k > 0
       THEN Warn(ProcessParts(s0, SubSeq(chunk.parts, 1, k - 1), ts))
       ELSE LET s1 == ProcessParts(s0, chunk.parts, ts)
                s2 == ApplyFinishReason(s1, chunk)
                s3 == ApplyUsage(s2, chunk)
            IN IF Has(chunk, "usageMetadata") /\ calculateCostThrows(st.model)
                 THEN Warn(s3)
                 ELSE s3

\* the sentinel test left out: "[DONE]" goes to JSON.parse
ProcessLine_NoSentinelCheck(st, line, ts) ==
  IF trim(line) = <<>> \/ startsWith(line, <<B(":")>>) THEN st
  ELSE IF ~startsWith(line, DataPrefix) THEN st
  ELSE LET r == JSONparse(slice(line, DataPrefixLen)) IN
       IF r.ok THEN ProcessChunk(st, r.chunk, ts)
       ELSE [st EXCEPT !.warnings = @ + 1]

\* a failed parse closes the open block
ProcessLine_ParseErrorClosesBlock(st, line, ts) ==
  IF trim(line) = <<>> \/ startsWith(line, <<B(":")>>) THEN st
  ELSE IF ~startsWith(line, DataPrefix) THEN st
  ELSE LET data == slice(line, DataPrefixLen) IN
       IF data = DoneSentinel THEN st
       ELSE LET r == JSONparse(data) IN
            IF r.ok THEN ProcessChunk(st, r.chunk, ts)
            ELSE [CloseForToolCall(st) EXCEPT !.warnings = @ + 1]

\* the body of `for (const line of lines)`
ProcessLine(st, line, ts) ==
  IF trim(line) = <<>> \/ startsWith(line, <<B(":")>>) THEN st
  ELSE IF ~startsWith(line, DataPrefix) THEN st
  ELSE LET data == slice(line, DataPrefixLen) IN
       IF data = DoneSentinel THEN st
       ELSE LET r == JSONparse(data) IN
            IF r.ok THEN ProcessChunk(st, r.chunk, ts)
            ELSE [st EXCEPT !.warnings = @ + 1]

RECURSIVE ProcessLines(_, _, _)
ProcessLines(st, lines, ts) ==
  IF lines = <<>> THEN st
  ELSE ProcessLines(ProcessLine(st, Head(lines), ts), Tail(lines), ts)

(***************************************************************************)
(* The assembler of the SDK-based provider: the chunks come from the       *)
(* SDK's async iterator, text parts are told apart from thinking parts,    *)
(* and a provided id that repeats an earlier one is replaced.              *)
(***************************************************************************)
\* isThinkingPart(part)
isThinkingPart(part) == Has(part, "thought") /\ part.thought = TRUE

\* retainThoughtSignature(existing, incoming)
retainThoughtSignature(existing, incoming) == IF incoming # "" THEN incoming ELSE existing

PartSignature(part) == IF Has(part, "thoughtSignature") THEN part.thoughtSignature ELSE ""

\* if (part.text !== undefined) { ... }
SdkTextPart(st, part) ==
  LET isThinking == isThinkingPart(part)
      cur == st.currentBlock
      needNew == \/ cur = 0
                 \/ (isThinking /\ st.content[cur].type # "thinking")
                 \/ (~isThinking /\ st.content[cur].type # "text")
      s1 == IF needNew /\ cur # 0 THEN push(st, EndEvent(st)) ELSE st
      s2 == IF needNew
              THEN LET entry == IF isThinking
                                  THEN [type |-> "thinking", thinking |-> <<>>,
                                        thinkingSignature |-> ""]
                                  ELSE [type |-> "text", text |-> <<>>,
                                        textSignature |-> ""]
                       c == Append(s1.content, entry)
                   IN push([s1 EXCEPT !.content = c, !.currentBlock = Len(c)],
                           [type |-> IF isThinking THEN "thinking_start" ELSE "text_start",
                            contentIndex |-> Len(c) - 1])
              ELSE s1
      b == s2.currentBlock
  IN IF s2.content[b].type = "thinking"
       THEN push([s2 EXCEPT !.content[b].thinking = @ \o part.text,
                            !.content[b].thinkingSignature =
                               retainThoughtSignature(@, PartSignature(part))],
                 [type |-> "thinking_delta", contentIndex |-> Len(s2.content) - 1,
                  delta |-> part.text])
       ELSE push([s2 EXCEPT !.content[b].text = @ \o part.text,
                            !.content[b].textSignature =
                               retainThoughtSignature(@, PartSignature(part))],
                 [type |-> "text_delta", contentIndex |-> Len(s2.content) - 1,
                  delta |-> part.text])

\* "Use provided id or generate a new one if missing or duplicate"
SdkResolveId(providedId, content, name, ts, counter) ==
  LET needsNewId ==
        \/ ~Truthy(providedId)
        \/ \E i \in 1..Len(content) :
             content[i].type = "toolCall" /\ content[i].id = providedId
  IN IF needsNewId
       THEN [id |-> SynthId(name, ts, counter + 1), counter |-> counter + 1]
       ELSE [id |-> providedId, counter |-> counter]

\* if (part.functionCall) { ... }
SdkFunctionCallPart(st, part, ts) ==
  LET s1 == CloseForToolCall(st)
      fc == part.functionCall
      providedId == IF Has(fc, "id") THEN fc.id ELSE NoId
      r == SdkResolveId(providedId, s1.content, fc.name, ts, s1.counter)
      args == IF Has(fc, "args") THEN fc.args ELSE EmptyMap
      toolCall == IF PartSignature(part) # ""
                    THEN [type |-> "toolCall", id |-> r.id, name |-> fc.name,
                          arguments |-> args, thoughtSignature |-> part.thoughtSignature]
                    ELSE [type |-> "toolCall", id |-> r.id, name |-> fc.name,
                          arguments |-> args]
      c == Append(s1.content, toolCall)
      s2 == [s1 EXCEPT !.content = c, !.counter = r.counter]
      s3 == push(s2, [type |-> "toolcall_start", contentIndex |-> Len(c) - 1])
      s4 == push(s3, [type |-> "toolcall_delta", contentIndex |-> Len(c) - 1,
                      delta |-> stringify(toolCall.arguments)])
  IN push(s4, [type |-> "toolcall_end", contentIndex |-> Len(c) - 1,
               toolCall |-> toolCall])

SdkProcessPart(st, part, ts) ==
  LET s1 == IF Has(part, "text") THEN SdkTextPart(st, part) ELSE st
  IN IF Has(part, "functionCall") THEN SdkFunctionCallPart(s1, part, ts) ELSE s1

RECURSIVE SdkProcessParts(_, _, _)
SdkProcessParts(st, parts, ts) ==
  IF parts = <<>> THEN st
  ELSE SdkProcessParts(SdkProcessPart(st, Head(parts), ts), Tail(parts), ts)

\* whether the body of the for-await loop throws on this chunk (it has no
\* try of its own: the exception reaches the catch of the whole run)
SdkChunkThrows(chunk, model) ==
  \/ FirstThrow(chunk.parts) > 0
  \/ (Has(chunk, "usageMetadata") /\ calculateCostThrows(model))

\* the body of `for await (const chunk of streamingResp)`, as far as it gets
SdkProcessChunk(st, chunk, ts) ==
  LET s0 == [st EXCEPT !.chunks = Append(@, chunk)]
      k == FirstThrow(chunk.parts)
  IN IF k > 0
       THEN SdkProcessParts(s0, SubSeq(chunk.parts, 1, k - 1), ts)
       ELSE LET s1 == SdkProcessParts(s0, chunk.parts, ts)
                s2 == ApplyFinishReason(s1, chunk)
            IN ApplyUsage(s2, chunk)

\* the block left open at the end of the stream
CloseRemaining_Skip(st) == st

\* "End any remaining block", after the read loop
CloseRemaining(st) ==
  IF st.currentBlock # 0 THEN push(st, EndEvent(st)) ELSE st

\* the else branch left out: no terminal event for an error stop reason
Terminal_DropsError(st) ==
  IF st.stopReason \in {"stop", "length", "toolUse"}
    THEN push(st, [type |-> "done", reason |-> st.stopReason])
    ELSE st

\* "Send done event only if stopReason is not error/aborted"
Terminal(st) ==
  IF st.stopReason \in {"stop", "length", "toolUse"}
    THEN push(st, [type |-> "done", reason |-> st.stopReason])
    ELSE push(st, [type |-> "error", reason |-> st.stopReason,
                   error |-> [content |-> st.content, stopReason |-> st.stopReason,
                              usage |-> st.usage]])

\* the stopReason override left out of the spread
CatchEvent_KeepsStopReason(out, errorMessage) ==
  [type |-> "error", reason |-> "error",
   error |-> [content |-> out.content, stopReason |-> out.stopReason,
              usage |-> out.usage, errorMessage |-> errorMessage]]

\* catch (error) { stream.push({ type: "error", reason: "error",
\*                 error: { ...output, errorMessage, stopReason: "error" } }) }
CatchEvent(out, errorMessage) ==
  [type |-> "error", reason |-> "error",
   error |-> [content |-> out.content, stopReason |-> "error", usage |-> out.usage,
              errorMessage |-> errorMessage]]

(***************************************************************************)
(* convertMessagesToGoogleFormat.  A Context is [messages |-> <<...>>]; a  *)
(* user message holds content = [str |-> x] (a plain string) or            *)
(* [blocks |-> <<...>>] (an array of blocks); assistant and toolResult     *)
(* messages hold [blocks |-> <<...>>].                                     *)
(***************************************************************************)
UserBlockParts(block) ==
  IF block.type = "text" THEN <<[text |-> block.text]>>
  ELSE IF block.type = "image"
    THEN <<[inlineData |->
              [mimeType |-> IF Has(block, "mimeType") /\ block.mimeType # ""
                              THEN block.mimeType ELSE "image/jpeg",
               data |-> block.data]]>>
    ELSE <<>>

\* the arguments replaced by the marker instead of extended with it
ArgsWithMarker_OnlyMarker(block) ==
  IF Truthy(block.id)
    THEN [k \in {Marker} |-> block.id]
    ELSE block.arguments

\* const argsWithMarker = { ...block.arguments }; if (block.id) argsWithMarker[Marker] = block.id
ArgsWithMarker(block) ==
  IF Truthy(block.id)
    THEN [k \in DOMAIN block.arguments \cup {Marker} |->
            IF k = Marker THEN block.id ELSE block.arguments[k]]
    ELSE block.arguments

\* the id sent as a field of functionCall, the arguments as they are
AssistantBlockParts_TopLevelId(block) ==
  IF block.type = "text" THEN <<[text |-> block.text]>>
  ELSE IF block.type = "toolCall"
    THEN <<[functionCall |->
              [name |-> block.name, args |-> block.arguments, id |-> block.id]]>>
    ELSE <<>>

\* the thoughtSignature of the block left out of its part
AssistantBlockParts_NoSignature(block) ==
  IF block.type = "text" THEN <<[text |-> block.text]>>
  ELSE IF block.type = "toolCall"
    THEN <<[functionCall |-> [name |-> block.name, args |-> ArgsWithMarker(block)]]>>
    ELSE <<>>

AssistantBlockParts(block) ==
  IF block.type = "text" THEN <<[text |-> block.text]>>
  ELSE IF block.type = "toolCall"
    THEN LET fc == [name |-> block.name, args |-> ArgsWithMarker(block)] IN
         IF Has(block, "thoughtSignature") /\ block.thoughtSignature # ""
           THEN <<[functionCall |-> fc, thoughtSignature |-> block.thoughtSignature]>>
           ELSE <<[functionCall |-> fc]>>
    ELSE <<>>

ToolResultBlockParts(msg, block) ==
  IF block.type = "text"
    THEN <<[functionResponse |-> [name |-> msg.toolName,
                                  response |-> [result |-> block.text]]]>>
    ELSE <<>>

\* tool results sent under the role "function"
ConvertMessage_FunctionRole(msg) ==
  IF msg.role = "user"
    THEN LET parts == IF Has(msg.content, "str") THEN <<[text |-> msg.content.str]>>
                      ELSE Flatten([i \in 1..Len(msg.content.blocks) |->
                                      UserBlockParts(msg.content.blocks[i])])
         IN <<[role |-> "user", parts |-> parts]>>
  ELSE IF msg.role = "assistant"
    THEN LET parts == Flatten([i \in 1..Len(msg.content.blocks) |->
                                 AssistantBlockParts(msg.content.blocks[i])])
         IN IF Len(parts) > 0 THEN <<[role |-> "model", parts |-> parts]>> ELSE <<>>
  ELSE IF msg.role = "toolResult"
    THEN LET parts == Flatten([i \in 1..Len(msg.content.blocks) |->
                                 ToolResultBlockParts(msg, msg.content.blocks[i])])
         IN IF Len(parts) > 0 THEN <<[role |-> "function", parts |-> parts]>> ELSE <<>>
  ELSE <<>>

ConvertMessage(msg) ==
  IF msg.role = "user"
    THEN LET parts == IF Has(msg.content, "str") THEN <<[text |-> msg.content.str]>>
                      ELSE Flatten([i \in 1..Len(msg.content.blocks) |->
                                      UserBlockParts(msg.content.blocks[i])])
         IN <<[role |-> "user", parts |-> parts]>>
  ELSE IF msg.role = "assistant"
    THEN LET parts == Flatten([i \in 1..Len(msg.content.blocks) |->
                                 AssistantBlockParts(msg.content.blocks[i])])
         IN IF Len(parts) > 0 THEN <<[role |-> "model", parts |-> parts]>> ELSE <<>>
  ELSE IF msg.role = "toolResult"
    THEN LET parts == Flatten([i \in 1..Len(msg.content.blocks) |->
                                 ToolResultBlockParts(msg, msg.content.blocks[i])])
         IN IF Len(parts) > 0 THEN <<[role |-> "user", parts |-> parts]>> ELSE <<>>
  ELSE <<>>

convertMessagesToGoogleFormat(context) ==
  Flatten([i \in 1..Len(context.messages) |-> ConvertMessage(context.messages[i])])

\* a toolCall block once its part is built, had the marker been assigned to
\* block.arguments itself instead of to a copy of it
BlockAfterConvert_InPlace(block) ==
  IF block.type = "toolCall"
    THEN [block EXCEPT !.arguments = ArgsWithMarker(block)]
    ELSE block

\* a block once its part is built: the loop reads the block's fields, and the
\* marker is assigned to argsWithMarker, the copy `{ ...block.arguments }`
BlockAfterConvert(block) == block

\* a message once the loop body has run on it
MessageAfterConvert(msg) ==
  IF msg.role = "assistant"
    THEN [msg EXCEPT !.content.blocks =
            [i \in 1..Len(msg.content.blocks) |->
               BlockAfterConvert(msg.content.blocks[i])]]
    ELSE msg

\* the Context as convertMessagesToGoogleFormat leaves it
ContextAfterConvert(context) ==
  [context EXCEPT !.messages =
     [i \in 1..Len(context.messages) |-> MessageAfterConvert(context.messages[i])]]

\* one tools entry per tool, each with a single declaration
convertTools_EntryPerTool(tools) ==
  [i \in 1..Len(tools) |->
     [functionDeclarations |->
        <<[name |-> tools[i].name, description |-> tools[i].description,
           parameters |-> tools[i].parameters]>>]]

\* convertTools, called with a tool list that is not empty
convertTools(tools) ==
  <<[functionDeclarations |->
       [i \in 1..Len(tools) |->
          [name |-> tools[i].name, description |-> tools[i].description,
           parameters |-> tools[i].parameters]]]>>

\* options.toolChoice === "auto" ? "AUTO" : options.toolChoice === "any" ? "ANY" : "NONE"
ToolChoiceMode(choice) ==
  IF choice = "auto" THEN "AUTO" ELSE IF choice = "any" THEN "ANY" ELSE "NONE"

\* requestBody: contents, then tools and toolConfig when the Context has tools
RequestBody(context, choice) ==
  LET contents == convertMessagesToGoogleFormat(context) IN
  IF Has(context, "tools") /\ Len(context.tools) > 0
    THEN IF choice # ""
           THEN [contents |-> contents, tools |-> convertTools(context.tools),
                 toolConfig |-> [functionCallingConfig |->
                                   [mode |-> ToolChoiceMode(choice)]]]
           ELSE [contents |-> contents, tools |-> convertTools(context.tools)]
    ELSE [contents |-> contents]

(***************************************************************************)
(* Inputs: what the server can put on the wire.                            *)
(***************************************************************************)
MaxLines == 2
MaxClock == 1

Quote == B("\"")
TextItem(chars) == <<Quote>> \o [i \in 1..Len(chars) |-> B(chars[i])] \o <<Quote>>
DataLine(items) == DataPrefix \o <<B("{")>> \o items \o <<B("}"), NL>>

Weather == [location |-> "NYC"]
WithMarker(args, id) ==
  [k \in DOMAIN args \cup {Marker} |-> IF k = Marker THEN id ELSE args[k]]

FcPlain   == [functionCall |-> [name |-> "get_weather", args |-> Weather]]
FcNoArgs  == [functionCall |-> [name |-> "get_weather"]]
FcServer  == [functionCall |-> [name |-> "get_weather", args |-> Weather, id |-> Str("srv_1")]]
FcMarker  == [functionCall |-> [name |-> "get_weather", args |-> WithMarker(Weather, Str("call_1"))]]
FcBoth    == [functionCall |-> [name |-> "get_weather", args |-> WithMarker(Weather, Str("call_1")),
                                id |-> Str("srv_1")]]
FcEmptyMarker == [functionCall |-> [name |-> "get_weather", args |-> WithMarker(EmptyMap, NoId),
                                    id |-> Str("srv_1")],
                  thoughtSignature |-> "sig"]

Finish(r) == J([finishReason |-> r])
Usage(n) == J([usageMetadata |-> [promptTokenCount |-> n, totalTokenCount |-> n + 1]])

AssemblerLines ==
  { DataLine(TextItem(<<>>) \o <<Finish("MAX_TOKENS")>>),
    DataLine(TextItem(<<"i">>) \o <<J(FcPlain), Finish("STOP")>>),
    DataLine(<<J(FcMarker), J(FcNoArgs), Finish("STOP"), Usage(3)>>),
    DataLine(<<J(FcServer), J(FcBoth), J(FcEmptyMarker)>>),
    DataLine(<<Finish("SAFETY"), Usage(5)>>) }

\* what the SDK's iterator can yield
SdkChunks ==
  { [parts |-> <<[text |-> <<"t">>, thought |-> TRUE]>>, finishReason |-> ""],
    [parts |-> <<[text |-> <<"H">>]>>, finishReason |-> "MAX_TOKENS"],
    [parts |-> <<[text |-> <<"a">>, thought |-> TRUE, thoughtSignature |-> "sig"],
                 [text |-> <<"b">>], FcPlain>>, finishReason |-> ""],
    [parts |-> <<FcServer, FcServer>>, finishReason |-> ""],
    [parts |-> <<FcNoArgs, [text |-> <<"c">>, thought |-> TRUE]>>, finishReason |-> "STOP"],
    [parts |-> <<>>, finishReason |-> "SAFETY",
     usageMetadata |-> [promptTokenCount |-> 2, candidatesTokenCount |-> 1]] }

RECURSIVE Responses(_, _)
Responses(items, n) ==
  IF n = 0 THEN {<<>>}
  ELSE LET shorter == Responses(items, n - 1) IN
       shorter \cup {Append(r, c) : r \in shorter, c \in items}

RECURSIVE Wires(_, _)
Wires(lines, n) ==
  IF n = 0 THEN {<<>>}
  ELSE LET shorter == Wires(lines, n - 1) IN
       shorter \cup {w \o l : w \in shorter, l \in lines}

\* lines that exercise the framing: a multi-byte character, a blank line, a
\* comment, the sentinel, malformed JSON, a line without the data prefix, CRLF
SseLines ==
  { DataLine(TextItem(<<"c3", "a9">>)),
    <<NL>>,
    <<B(":"), B("k"), NL>>,
    DataPrefix \o DoneSentinel \o <<NL>>,
    DataPrefix \o <<B("{"), Quote, B("x"), NL>>,
    <<B("e"), NL>>,
    DataPrefix \o <<B("{"), J(FcPlain), B("}"), B("\r"), NL>> }

\* whole lines, and the same with the last byte not (yet) sent
SseWires ==
  LET ws == Wires(SseLines, MaxLines) IN
  ws \cup {Front(w) : w \in ws \ {<<>>}}

ConcWires ==
  {DataLine(<<J(FcNoArgs)>> \o TextItem(<<"i">>)), DataLine(<<J(FcPlain), J(FcNoArgs)>>)}
ConcResponses ==
  { <<[parts |-> <<FcNoArgs, [text |-> <<"i">>]>>, finishReason |-> ""]>>,
    <<[parts |-> <<FcPlain, FcNoArgs>>, finishReason |-> "STOP"]>> }

\* responses whose tool calls all need a synthesized id, in one chunk or two
CounterWires ==
  {DataLine(<<J(FcNoArgs)>>) \o DataLine(<<J(FcNoArgs)>>),
   DataLine(<<J(FcPlain), J(FcNoArgs)>>)}
CounterResponses ==
  { <<[parts |-> <<FcNoArgs>>, finishReason |-> ""],
      [parts |-> <<FcNoArgs>>, finishReason |-> ""]>>,
    <<[parts |-> <<FcPlain, FcNoArgs>>, finishReason |-> "STOP"]>> }

\* the finishReason values a candidate can carry; OTHER stands for any value
\* that mapStopReason has no case for
FinishReasons == {"STOP", "MAX_TOKENS", "SAFETY", "RECITATION", "OTHER"}

\* functionCall parts with a thoughtSignature, empty and not
FcEmptySignature == [functionCall |-> [name |-> "get_weather"], thoughtSignature |-> ""]
FcSigned ==
  [functionCall |-> [name |-> "get_weather", args |-> Weather],
   thoughtSignature |-> "test_signature_123"]

\* chunks that carry a finishReason alone, or tool calls alone
StopLines ==
  {DataLine(<<Finish(r)>>) : r \in FinishReasons}
  \cup {DataLine(<<J(FcPlain), J(FcEmptySignature), J(FcSigned)>>)}

HelloContext == [messages |-> <<[role |-> "user", content |-> [str |-> "hello"]]>>]

\* contexts whose assistant message holds tool calls to be sent back
MaxBlocks == 2

EchoBlocks ==
  {[type |-> "toolCall", id |-> Str("call_1"), name |-> "get_weather", arguments |-> Weather],
   [type |-> "toolCall", id |-> NoId, name |-> "get_weather", arguments |-> EmptyMap]}
  \cup {[type |-> "toolCall", id |-> SynthId("get_weather", 0, 1), name |-> "lookup",
         arguments |-> [q |-> "x", location |-> "NYC"], thoughtSignature |-> "sig"]}

RECURSIVE BlockLists(_)
BlockLists(n) ==
  IF n = 0 THEN {<<>>}
  ELSE LET shorter == BlockLists(n - 1) IN
       shorter \cup {Append(l, b) : l \in shorter, b \in EchoBlocks}

EchoContexts ==
  {[messages |-> <<[role |-> "user", content |-> [str |-> "hello"]],
                   [role |-> "assistant", content |-> [blocks |-> l]]>>] :
     l \in BlockLists(MaxBlocks) \ {<<>>}}

\* the server sends a functionCall part back as it got it, or with an id of its own
EchoVariants(part) ==
  {part, [part EXCEPT !.functionCall =
            [name |-> @.name, args |-> @.args, id |-> Str("srv_1")]]}

RECURSIVE EchoLines(_)
EchoLines(parts) ==
  IF parts = <<>> THEN {<<>>}
  ELSE {DataLine(<<J(q)>>) \o rest :
          q \in EchoVariants(Head(parts)), rest \in EchoLines(Tail(parts))}

SentParts(contents) == Flatten([i \in 1..Len(contents) |-> contents[i].parts])

EchoWires(ctx) ==
  EchoLines(SelectSeq(SentParts(convertMessagesToGoogleFormat(ctx)),
                      LAMBDA q : Has(q, "functionCall")))

\* the messages a Context can hold: every kind, with blocks that map to a
\* part, blocks that map to none, and no block at all
ConvertMessages ==
  {[role |-> "user", content |-> [str |-> "hello"]],
   [role |-> "user", content |-> [blocks |-> <<>>]],
   [role |-> "user", content |-> [blocks |-> <<[type |-> "video", data |-> "v"]>>]],
   [role |-> "user",
    content |-> [blocks |-> <<[type |-> "text", text |-> "look"],
                              [type |-> "video", data |-> "v"],
                              [type |-> "image", data |-> "png"]>>]],
   [role |-> "assistant",
    content |-> [blocks |-> <<[type |-> "thinking", thinking |-> "hm"]>>]],
   [role |-> "assistant",
    content |-> [blocks |-> <<[type |-> "thinking", thinking |-> "hm"],
                              [type |-> "text", text |-> "ok"],
                              [type |-> "toolCall", id |-> Str("call_123"),
                               name |-> "get_weather", arguments |-> Weather]>>]],
   [role |-> "toolResult", toolCallId |-> Str("call_123"), toolName |-> "get_weather",
    content |-> [blocks |-> <<[type |-> "text", text |-> "72F"]>>]],
   [role |-> "toolResult", toolCallId |-> Str("call_123"), toolName |-> "get_weather",
    content |-> [blocks |-> <<[type |-> "text", text |-> "72F"],
                              [type |-> "text", text |-> "sunny"]>>]],
   [role |-> "toolResult", toolCallId |-> Str("call_123"), toolName |-> "get_weather",
    content |-> [blocks |-> <<[type |-> "image", data |-> "png"]>>]]}

MaxMessages == 2

RECURSIVE MessageLists(_)
MessageLists(n) ==
  IF n = 0 THEN {<<>>}
  ELSE LET shorter == MessageLists(n - 1) IN
       shorter \cup {Append(l, m) : l \in shorter, m \in ConvertMessages}

\* tool declarations: name, description, parameter schema
WeatherTool ==
  [name |-> "get_weather", description |-> "Get weather", parameters |-> "object"]
LookupTool ==
  [name |-> "lookup", description |-> "Look up", parameters |-> "object"]

ToolLists == {<<>>, <<WeatherTool>>, <<LookupTool, WeatherTool>>}

\* Contexts without tools on every list of messages, and Contexts with tools
ConvertContexts ==
  {[messages |-> l] : l \in MessageLists(MaxMessages)}
  \cup {[messages |-> HelloContext.messages, tools |-> t] : t \in ToolLists}

\* a response of one line
ConvertWire == DataLine(TextItem(<<"i">>))

\* the messages of the errors a fetch or a read can reject with
TransportErrors == {Str("network error"), Str("The operation was aborted")}

\* a response that is not ok: its status and the text of its body
ErrorStatuses == {"403", "500"}
ErrorTexts == {"", "boom"}

\* `Vertex AI request failed: ${response.status} ${errorText}`
FailedMessage(status, errorText) ==
  [text |-> "Vertex AI request failed: ", status |-> status, errorText |-> errorText]

(***************************************************************************)
(* State.                                                                  *)
(***************************************************************************)
VARIABLES
  impl,            \* which provider module is loaded: "sse" (fetch + SSE) or "sdk"
  pc,              \* where each call of streamVertexAI stands
  apiKey,          \* options.apiKey || getEnvApiKey(provider) || ""
  toolChoice,      \* options.toolChoice ("" when it is not given)
  context,         \* the Context of the call
  wire,            \* the bytes of the response body
  response,        \* the chunks the SDK's iterator yields
  request,         \* requestBody
  rpos,            \* how many bytes of the body the reader has delivered
  decoder,         \* the TextDecoder's pending bytes
  buffer,
  currentBlock,
  output,
  stream,          \* the calls made on the event stream: pushed events, then end
  chunks,          \* the chunks decoded so far
  toolCallCounter,
  warnings,        \* how many times console.warn("Failed to parse SSE chunk") ran
  model,           \* the Model of the call: its id and, when it has one, its cost table
  now              \* Date.now()

vars == <<impl, pc, apiKey, toolChoice, model, context, wire, response, request, rpos,
          decoder, buffer, currentBlock, output, stream, chunks, toolCallCounter,
          warnings, now>>

inputs == <<impl, apiKey, toolChoice, model, context, wire, response>>

\* what a call does not write to, its Context apart
given == <<impl, apiKey, toolChoice, model, wire, response>>

\* a model with a cost table, and a custom one without
Priced == [id |-> "gemini-2.5-flash", cost |-> [input |-> 1, output |-> 2]]
Unpriced == [id |-> "custom"]

NewOutput ==
  [content |-> <<>>, stopReason |-> "stop",
   usage |-> [input |-> 0, output |-> 0, totalTokens |-> 0]]

EndCall == [type |-> "end"]

InitRun ==
  /\ request = [s \in Streams |-> [contents |-> <<>>]]
  /\ rpos = [s \in Streams |-> 0]
  /\ decoder = [s \in Streams |-> <<>>]
  /\ buffer = [s \in Streams |-> <<>>]
  /\ currentBlock = [s \in Streams |-> 0]
  /\ output = [s \in Streams |-> NewOutput]
  /\ stream = [s \in Streams |-> <<>>]
  /\ chunks = [s \in Streams |-> <<>>]
  /\ toolCallCounter = 0
  /\ warnings = [s \in Streams |-> 0]
  /\ now = 0

OnlyS1(x, none) == [s \in Streams |-> IF s = "s1" THEN x ELSE none]

\* one call of the SDK-based provider
InitSdk ==
  /\ impl = "sdk"
  /\ pc = OnlyS1("idle", "unused")
  /\ apiKey \in {[s \in Streams |-> k] : k \in {"", "key"}}
  /\ context = [s \in Streams |-> HelloContext]
  /\ wire = [s \in Streams |-> <<>>]
  /\ response \in {OnlyS1(r, <<>>) : r \in Responses(SdkChunks, MaxLines)}
  /\ toolChoice = [s \in Streams |-> ""]
  /\ model = [s \in Streams |-> Priced]
  /\ InitRun

\* one call of streamVertexAI, on any response the assembler cases need
InitSse ==
  /\ impl = "sse"
  /\ pc = OnlyS1("idle", "unused")
  /\ apiKey \in {[s \in Streams |-> k] : k \in {"", "key"}}
  /\ context = [s \in Streams |-> HelloContext]
  /\ wire \in {OnlyS1(w, <<>>) : w \in Wires(AssemblerLines, MaxLines)}
  /\ response = [s \in Streams |-> <<>>]
  /\ toolChoice = [s \in Streams |-> ""]
  /\ model = [s \in Streams |-> Priced]
  /\ InitRun

Init == InitSse \/ InitSdk

\* one call on a response that exercises the SSE framing
InitBytes ==
  /\ impl = "sse"
  /\ pc = OnlyS1("idle", "unused")
  /\ apiKey \in {[s \in Streams |-> k] : k \in {"", "key"}}
  /\ context = [s \in Streams |-> HelloContext]
  /\ wire \in {OnlyS1(w, <<>>) : w \in SseWires}
  /\ response = [s \in Streams |-> <<>>]
  /\ toolChoice = [s \in Streams |-> ""]
  /\ model = [s \in Streams |-> Priced]
  /\ InitRun

InitSSE == InitBytes \/ InitSdk

\* one call whose tool calls come back from the server
InitEcho ==
  /\ impl = "sse"
  /\ pc = OnlyS1("idle", "unused")
  /\ apiKey \in {[s \in Streams |-> k] : k \in {"", "key"}}
  /\ \E ctx \in EchoContexts :
       /\ context = [s \in Streams |-> ctx]
       /\ wire \in {OnlyS1(w, <<>>) : w \in EchoWires(ctx)}
  /\ response = [s \in Streams |-> <<>>]
  /\ toolChoice = [s \in Streams |-> ""]
  /\ model = [s \in Streams |-> Priced]
  /\ InitRun

InitRoundTrip == InitEcho \/ InitSdk

\* one call on a response made of finishReason and tool-call chunks
InitFinish ==
  /\ impl = "sse"
  /\ pc = OnlyS1("idle", "unused")
  /\ apiKey \in {[s \in Streams |-> k] : k \in {"", "key"}}
  /\ context = [s \in Streams |-> HelloContext]
  /\ wire \in {OnlyS1(w, <<>>) : w \in Wires(StopLines, MaxLines)}
  /\ response = [s \in Streams |-> <<>>]
  /\ toolChoice = [s \in Streams |-> ""]
  /\ model = [s \in Streams |-> Priced]
  /\ InitRun

InitStop == InitFinish \/ InitSdk

\* chunks whose processing throws part-way, next to chunks that are fine: a
\* null after a text part and before a tool call, a finishReason and the
\* usage; and chunks with usage, which throw on a model without prices
AbsorbLines ==
  { DataLine(TextItem(<<"i">>)),
    DataLine(TextItem(<<"a">>) \o <<J(NullPart), J(FcPlain), Finish("MAX_TOKENS"), Usage(3)>>),
    DataLine(<<J(FcPlain)>> \o TextItem(<<"b">>) \o <<Finish("STOP"), Usage(5)>>) }

AbsorbChunks ==
  { [parts |-> <<[text |-> <<"i">>]>>, finishReason |-> ""],
    [parts |-> <<[text |-> <<"a">>], NullPart, FcPlain>>, finishReason |-> "MAX_TOKENS"],
    [parts |-> <<FcPlain>>, finishReason |-> "STOP",
     usageMetadata |-> [promptTokenCount |-> 5, totalTokenCount |-> 6]] }

\* one call of either provider, with either model, on those chunks
InitAbsorb ==
  /\ pc = OnlyS1("idle", "unused")
  /\ apiKey = [s \in Streams |-> "key"]
  /\ context = [s \in Streams |-> HelloContext]
  /\ \/ /\ impl = "sse"
        /\ wire \in {OnlyS1(w, <<>>) : w \in Wires(AbsorbLines, MaxLines)}
        /\ response = [s \in Streams |-> <<>>]
     \/ /\ impl = "sdk"
        /\ wire = [s \in Streams |-> <<>>]
        /\ response \in {OnlyS1(r, <<>>) : r \in Responses(AbsorbChunks, MaxLines)}
  /\ toolChoice = [s \in Streams |-> ""]
  /\ model \in {[s \in Streams |-> m] : m \in {Priced, Unpriced}}
  /\ InitRun

\* one call on any Context, with or without tools and a tool choice
InitContext ==
  /\ impl = "sse"
  /\ pc = OnlyS1("idle", "unused")
  /\ apiKey \in {[s \in Streams |-> k] : k \in {"", "key"}}
  /\ toolChoice \in {[s \in Streams |-> c] : c \in {"", "any"}}
  /\ context \in {[s \in Streams |-> ctx] : ctx \in ConvertContexts}
  /\ wire = OnlyS1(ConvertWire, <<>>)
  /\ response = [s \in Streams |-> <<>>]
  /\ model = [s \in Streams |-> Priced]
  /\ InitRun

InitConvert == InitContext \/ InitSdk

\* two calls of the same module, started in any order
InitConc ==
  /\ impl \in {"sse", "sdk"}
  /\ pc = [s \in Streams |-> "idle"]
  /\ apiKey \in {[s \in Streams |-> k] : k \in {"", "key"}}
  /\ context = [s \in Streams |-> HelloContext]
  /\ IF impl = "sse"
       THEN /\ wire \in [Streams -> ConcWires]
            /\ response = [s \in Streams |-> <<>>]
       ELSE /\ wire = [s \in Streams |-> <<>>]
            /\ response \in [Streams -> ConcResponses]
  /\ toolChoice = [s \in Streams |-> ""]
  /\ model = [s \in Streams |-> Priced]
  /\ InitRun

\* two calls of the same module, with a key, on tool calls without ids
InitCounter ==
  /\ impl \in {"sse", "sdk"}
  /\ pc = [s \in Streams |-> "idle"]
  /\ apiKey = [s \in Streams |-> "key"]
  /\ context = [s \in Streams |-> HelloContext]
  /\ IF impl = "sse"
       THEN /\ wire \in [Streams -> CounterWires]
            /\ response = [s \in Streams |-> <<>>]
       ELSE /\ wire = [s \in Streams |-> <<>>]
            /\ response \in [Streams -> CounterResponses]
  /\ toolChoice = [s \in Streams |-> ""]
  /\ model = [s \in Streams |-> Priced]
  /\ InitRun

St(s) ==
  [content |-> output[s].content, stopReason |-> output[s].stopReason,
   usage |-> output[s].usage, currentBlock |-> currentBlock[s],
   events |-> stream[s], counter |-> toolCallCounter, chunks |-> chunks[s],
   warnings |-> warnings[s], model |-> model[s]]

Commit(s, st) ==
  /\ output' = [output EXCEPT ![s] = [content |-> st.content,
                                      stopReason |-> st.stopReason,
                                      usage |-> st.usage]]
  /\ currentBlock' = [currentBlock EXCEPT ![s] = st.currentBlock]
  /\ stream' = [stream EXCEPT ![s] = st.events]
  /\ chunks' = [chunks EXCEPT ![s] = st.chunks]
  /\ toolCallCounter' = st.counter
  /\ warnings' = [warnings EXCEPT ![s] = st.warnings]

\* the open block closed in the catch block before the error event
Fail_ClosesBlock(s, errorMessage) ==
  /\ stream' = [stream EXCEPT ![s] =
                  @ \o (IF currentBlock[s] # 0 THEN <<EndEvent(St(s))>> ELSE <<>>)
                    \o <<CatchEvent(output[s], errorMessage), EndCall>>]
  /\ pc' = [pc EXCEPT ![s] = "ended"]

\* the finally block left out: the error event is pushed, the stream is not ended
Fail_NoEnd(s, errorMessage) ==
  /\ stream' = [stream EXCEPT ![s] = Append(@, CatchEvent(output[s], errorMessage))]
  /\ pc' = [pc EXCEPT ![s] = "ended"]

\* catch (error) { push error } finally { stream.end(output) }
Fail(s, errorMessage) ==
  /\ stream' = [stream EXCEPT ![s] =
                  @ \o <<CatchEvent(output[s], errorMessage), EndCall>>]
  /\ pc' = [pc EXCEPT ![s] = "ended"]

(***************************************************************************)
(* Steps of one call.  The code between two awaits runs without            *)
(* interruption, so each step is everything up to the next await.          *)
(***************************************************************************)
\* the credential check left out: the request is sent without a key
Call_NoKeyCheck(s) ==
  /\ impl = "sse"
  /\ pc[s] = "idle"
  /\ request' = [request EXCEPT ![s] = RequestBody(context[s], toolChoice[s])]
  /\ context' = [context EXCEPT ![s] = ContextAfterConvert(@)]
  /\ pc' = [pc EXCEPT ![s] = "fetching"]
  /\ UNCHANGED <<given, rpos, decoder, buffer, currentBlock, output, stream, chunks,
                 toolCallCounter, warnings, now>>

\* the counter reset at the start of every call
Call_ResetsCounter(s) ==
  /\ impl = "sse"
  /\ pc[s] = "idle"
  /\ IF apiKey[s] = ""
       THEN /\ Fail(s, Str("Vertex AI requires an API key"))
            /\ UNCHANGED <<request, context>>
       ELSE /\ request' = [request EXCEPT ![s] = RequestBody(context[s], toolChoice[s])]
            /\ context' = [context EXCEPT ![s] = ContextAfterConvert(@)]
            /\ pc' = [pc EXCEPT ![s] = "fetching"]
            /\ UNCHANGED stream
  /\ toolCallCounter' = 0
  /\ UNCHANGED <<given, rpos, decoder, buffer, currentBlock, output, chunks,
                 warnings, now>>

\* streamVertexAI is called: up to `await fetch(...)`
Call(s) ==
  /\ impl = "sse"
  /\ pc[s] = "idle"
  /\ IF apiKey[s] = ""
       THEN /\ Fail(s, Str("Vertex AI requires an API key"))
            /\ UNCHANGED <<request, context>>
       ELSE /\ request' = [request EXCEPT ![s] = RequestBody(context[s], toolChoice[s])]
            /\ context' = [context EXCEPT ![s] = ContextAfterConvert(@)]
            /\ pc' = [pc EXCEPT ![s] = "fetching"]
            /\ UNCHANGED stream
  /\ UNCHANGED <<given, rpos, decoder, buffer, currentBlock, output, chunks,
                 toolCallCounter, warnings, now>>

\* the start event left out
FetchOk_NoStart(s) ==
  /\ pc[s] = "fetching"
  /\ pc' = [pc EXCEPT ![s] = "reading"]
  /\ UNCHANGED <<inputs, request, rpos, decoder, buffer, currentBlock, output, stream,
                 chunks, toolCallCounter, warnings, now>>

\* fetch resolves with a success status and a body: start, then the first read
FetchOk(s) ==
  /\ pc[s] = "fetching"
  /\ stream' = [stream EXCEPT ![s] = Append(@, [type |-> "start"])]
  /\ pc' = [pc EXCEPT ![s] = "reading"]
  /\ UNCHANGED <<inputs, request, rpos, decoder, buffer, currentBlock, output, chunks,
                 toolCallCounter, warnings, now>>

\* fetch resolves with !response.ok: `await response.text()`
FetchNotOk(s) ==
  /\ pc[s] = "fetching"
  /\ pc' = [pc EXCEPT ![s] = "errbody"]
  /\ UNCHANGED <<inputs, request, rpos, decoder, buffer, currentBlock, output, stream,
                 chunks, toolCallCounter, warnings, now>>

\* response.text() settles: with the body text, and the error is thrown with
\* the status and the text, or with the failure of reading the body
ErrorBody(s) ==
  /\ pc[s] = "errbody"
  /\ \E m \in {FailedMessage(st, t) : st \in ErrorStatuses, t \in ErrorTexts}
               \cup TransportErrors : Fail(s, m)
  /\ UNCHANGED <<inputs, request, rpos, decoder, buffer, currentBlock, output, chunks,
                 toolCallCounter, warnings, now>>

\* the body check left out: start is pushed and getReader() fails on null
FetchNoBody_NoCheck(s) ==
  /\ pc[s] = "fetching"
  /\ stream' = [stream EXCEPT ![s] =
                  <<[type |-> "start"],
                    CatchEvent(output[s], Str("Cannot read properties of null")), EndCall>>]
  /\ pc' = [pc EXCEPT ![s] = "ended"]
  /\ UNCHANGED <<inputs, request, rpos, decoder, buffer, currentBlock, output, chunks,
                 toolCallCounter, warnings, now>>

\* fetch resolves with a success status and no body
FetchNoBody(s) ==
  /\ pc[s] = "fetching"
  /\ Fail(s, Str("Response body is null"))
  /\ UNCHANGED <<inputs, request, rpos, decoder, buffer, currentBlock, output, chunks,
                 toolCallCounter, warnings, now>>

\* fetch rejects
FetchReject(s, m) ==
  /\ pc[s] = "fetching"
  /\ Fail(s, m)
  /\ UNCHANGED <<inputs, request, rpos, decoder, buffer, currentBlock, output, chunks,
                 toolCallCounter, warnings, now>>

\* `buffer` declared at module level: one pending line for all the calls
ReadValue_SharedBuffer(s) ==
  /\ pc[s] = "reading"
  /\ \E n \in 1..(Len(wire[s]) - rpos[s]) :
       LET value == SubSeq(wire[s], rpos[s] + 1, rpos[s] + n)
           d == decode(decoder[s], value)
           lines == split(buffer[s] \o d.out)
       IN /\ rpos' = [rpos EXCEPT ![s] = @ + n]
          /\ decoder' = [decoder EXCEPT ![s] = d.pend]
          /\ buffer' = [t \in Streams |-> Rebuffer(lines)]
          /\ Commit(s, ProcessLines(St(s), Front(lines), now))
  /\ UNCHANGED <<inputs, request, pc, now>>

\* reader.read() resolves with the next n bytes: one pass of the while loop
ReadValue(s) ==
  /\ pc[s] = "reading"
  /\ \E n \in 1..(Len(wire[s]) - rpos[s]) :
       LET value == SubSeq(wire[s], rpos[s] + 1, rpos[s] + n)
           d == decode(decoder[s], value)
           lines == split(buffer[s] \o d.out)
       IN /\ rpos' = [rpos EXCEPT ![s] = @ + n]
          /\ decoder' = [decoder EXCEPT ![s] = d.pend]
          /\ buffer' = [buffer EXCEPT ![s] = Rebuffer(lines)]
          /\ Commit(s, ProcessLines(St(s), Front(lines), now))
  /\ UNCHANGED <<inputs, request, pc, now>>

\* the pending buffer treated as a last line when the stream is done
ReadDone_ProcessesPending(s) ==
  /\ pc[s] = "reading"
  /\ rpos[s] = Len(wire[s])
  /\ LET st == Terminal(CloseRemaining(ProcessLine(St(s), buffer[s], now))) IN
       Commit(s, [st EXCEPT !.events = Append(@, EndCall)])
  /\ pc' = [pc EXCEPT ![s] = "ended"]
  /\ UNCHANGED <<inputs, request, rpos, decoder, buffer, now>>

\* reader.read() resolves with done: close the open block, terminal event, end
ReadDone(s) ==
  /\ pc[s] = "reading"
  /\ rpos[s] = Len(wire[s])
  /\ LET st == Terminal(CloseRemaining(St(s))) IN
       Commit(s, [st EXCEPT !.events = Append(@, EndCall)])
  /\ pc' = [pc EXCEPT ![s] = "ended"]
  /\ UNCHANGED <<inputs, request, rpos, decoder, buffer, now>>

\* reader.read() rejects (the transport fails or the request is aborted)
ReadThrow(s, m) ==
  /\ pc[s] = "reading"
  /\ Fail(s, m)
  /\ UNCHANGED <<inputs, request, rpos, decoder, buffer, currentBlock, output, chunks,
                 toolCallCounter, warnings, now>>

\* the SDK-based streamVertexAI is called: start is pushed, then
\* `await client.models.generateContentStream(params)`
SdkCall(s) ==
  /\ impl = "sdk"
  /\ pc[s] = "idle"
  /\ IF apiKey[s] = ""
       THEN Fail(s, Str("Vertex AI requires an API key"))
       ELSE /\ stream' = [stream EXCEPT ![s] = Append(@, [type |-> "start"])]
            /\ pc' = [pc EXCEPT ![s] = "connecting"]
  /\ UNCHANGED <<inputs, request, rpos, decoder, buffer, currentBlock, output, chunks,
                 toolCallCounter, warnings, now>>

\* generateContentStream resolves: the for-await loop asks for the first chunk
SdkConnect(s) ==
  /\ pc[s] = "connecting"
  /\ pc' = [pc EXCEPT ![s] = "iterating"]
  /\ UNCHANGED <<inputs, request, rpos, decoder, buffer, currentBlock, output, stream,
                 chunks, toolCallCounter, warnings, now>>

\* generateContentStream rejects
SdkConnectReject(s, m) ==
  /\ pc[s] = "connecting"
  /\ Fail(s, m)
  /\ UNCHANGED <<inputs, request, rpos, decoder, buffer, currentBlock, output, chunks,
                 toolCallCounter, warnings, now>>

\* the iterator yields the next chunk: one pass of the for-await loop
SdkNext(s) ==
  /\ pc[s] = "iterating"
  /\ rpos[s] < Len(response[s])
  /\ rpos' = [rpos EXCEPT ![s] = @ + 1]
  /\ LET chunk == response[s][rpos[s] + 1]
         st == SdkProcessChunk(St(s), chunk, now)
     IN IF SdkChunkThrows(chunk, model[s])
          THEN /\ Commit(s, [st EXCEPT !.events =
                               @ \o <<CatchEvent(st, Str("TypeError")), EndCall>>])
               /\ pc' = [pc EXCEPT ![s] = "ended"]
          ELSE /\ Commit(s, st)
               /\ UNCHANGED pc
  /\ UNCHANGED <<inputs, request, decoder, buffer, now>>

\* the iterator is exhausted: close the open block, terminal event, end
SdkDone(s) ==
  /\ pc[s] = "iterating"
  /\ rpos[s] = Len(response[s])
  /\ LET st == Terminal(CloseRemaining(St(s))) IN
       Commit(s, [st EXCEPT !.events = Append(@, EndCall)])
  /\ pc' = [pc EXCEPT ![s] = "ended"]
  /\ UNCHANGED <<inputs, request, rpos, decoder, buffer, now>>

\* the iterator throws
SdkThrow(s, m) ==
  /\ pc[s] = "iterating"
  /\ Fail(s, m)
  /\ UNCHANGED <<inputs, request, rpos, decoder, buffer, currentBlock, output, chunks,
                 toolCallCounter, warnings, now>>

\* time passes.  Date.now() is read by the read loop only, so the clock is
\* advanced only while some read loop is running.
Tick ==
  /\ now < MaxClock
  /\ \E s \in Streams : pc[s] \in {"reading", "iterating"}
  /\ now' = now + 1
  /\ UNCHANGED <<inputs, pc, request, rpos, decoder, buffer, currentBlock, output,
                 stream, chunks, toolCallCounter, warnings>>

Next ==
  \/ \E s \in Streams : Call(s)
  \/ \E s \in Streams : FetchOk(s)
  \/ \E s \in Streams : FetchNotOk(s)
  \/ \E s \in Streams : ErrorBody(s)
  \/ \E s \in Streams : FetchNoBody(s)
  \/ \E s \in Streams, m \in TransportErrors : FetchReject(s, m)
  \/ \E s \in Streams : ReadValue(s)
  \/ \E s \in Streams : ReadDone(s)
  \/ \E s \in Streams, m \in TransportErrors : ReadThrow(s, m)
  \/ \E s \in Streams : SdkCall(s)
  \/ \E s \in Streams : SdkConnect(s)
  \/ \E s \in Streams, m \in TransportErrors : SdkConnectReject(s, m)
  \/ \E s \in Streams : SdkNext(s)
  \/ \E s \in Streams : SdkDone(s)
  \/ \E s \in Streams, m \in TransportErrors : SdkThrow(s, m)
  \/ Tick

Spec == Init /\ [][Next]_vars

SpecSSE == InitSSE /\ [][Next]_vars
SpecRoundTrip == InitRoundTrip /\ [][Next]_vars
SpecConc == InitConc /\ [][Next]_vars
SpecStop == InitStop /\ [][Next]_vars
SpecConvert == InitConvert /\ [][Next]_vars
SpecAbsorb == InitAbsorb /\ [][Next]_vars
SpecCounter == InitCounter /\ [][Next]_vars

\* the steps of call s other than the delivery of bytes or of a chunk
Settle(s) ==
  \/ Call(s)
  \/ FetchOk(s)
  \/ FetchNotOk(s)
  \/ ErrorBody(s)
  \/ FetchNoBody(s)
  \/ \E m \in TransportErrors : FetchReject(s, m)
  \/ ReadDone(s)
  \/ \E m \in TransportErrors : ReadThrow(s, m)
  \/ SdkCall(s)
  \/ SdkConnect(s)
  \/ \E m \in TransportErrors : SdkConnectReject(s, m)
  \/ SdkDone(s)
  \/ \E m \in TransportErrors : SdkThrow(s, m)

\* the async function of a call is started; fetch, response.text() and
\* generateContentStream settle; and a read, or a step of the SDK's iterator,
\* at last signals the end of the stream or throws, however many deliver
\* bytes or a chunk before it.  The continuation of an await runs once it
\* has settled.
Fairness == \A s \in Streams : WF_vars(Settle(s))

\* one call of either provider on a short response: nothing, a text left
\* open, a tool call with a finishReason; or one chunk at most from the SDK
LiveWires ==
  {<<>>, ConvertWire, DataLine(<<J(FcNoArgs), Finish("SAFETY")>>)}

InitLive ==
  /\ pc = OnlyS1("idle", "unused")
  /\ apiKey \in {[s \in Streams |-> k] : k \in {"", "key"}}
  /\ context = [s \in Streams |-> HelloContext]
  /\ \/ /\ impl = "sse"
        /\ wire \in {OnlyS1(w, <<>>) : w \in LiveWires}
        /\ response = [s \in Streams |-> <<>>]
     \/ /\ impl = "sdk"
        /\ wire = [s \in Streams |-> <<>>]
        /\ response \in {OnlyS1(r, <<>>) : r \in Responses(SdkChunks, 1)}
  /\ toolChoice = [s \in Streams |-> ""]
  /\ model = [s \in Streams |-> Priced]
  /\ InitRun

\* every run: one call on the short responses, or two calls at once
SpecLive == (InitLive \/ InitConc) /\ [][Next]_vars /\ Fairness

(***************************************************************************)
(* Reading the event log and the output.                                   *)
(***************************************************************************)
IsTerminal(e) == e.type \in {"done", "error"}
\* the terminal event of the normal path (the catch block adds errorMessage)
IsNormalTerminal(e) == IsTerminal(e) /\ ~(e.type = "error" /\ Has(e.error, "errorMessage"))
BlockStartTypes == {"text_start", "thinking_start"}
BlockEndTypes == {"text_end", "thinking_end"}
StartTypes == BlockStartTypes \cup {"toolcall_start"}
EndOf(t) == IF t = "text_start" THEN "text_end" ELSE "thinking_end"
KindOf(t) == IF t \in {"text_start", "text_end"} THEN "text" ELSE "thinking"

ToolCalls(content) == SelectSeq(content, LAMBDA e : e.type = "toolCall")
AllParts(chs) == Flatten([i \in 1..Len(chs) |-> chs[i].parts])
FunctionCallParts(parts) == SelectSeq(parts, LAMBDA q : Has(q, "functionCall"))
EventsOfType(log, t) == SelectSeq(log, LAMBDA e : e.type = t)

\* C1: every run pushes exactly one terminal event (done or error), nothing
\* after it, and then calls stream.end exactly once; before the run has
\* ended the log holds no terminal event and no end call.
C1_OneTerminalThenEnd ==
  \A s \in Streams :
    LET log == stream[s]
        n == Len(log)
    IN IF pc[s] = "ended"
         THEN /\ n >= 2
              /\ log[n] = EndCall
              /\ IsTerminal(log[n - 1])
              /\ \A i \in 1..(n - 2) : ~IsTerminal(log[i]) /\ log[i] # EndCall
         ELSE \A i \in 1..n : ~IsTerminal(log[i]) /\ log[i] # EndCall

C1_Witness ==
  \E s \in Streams :
    /\ pc[s] = "ended"
    /\ stream[s][Len(stream[s]) - 1].type = "done"
    /\ \E i \in 1..Len(stream[s]) : stream[s][i].type = "toolcall_end"
    /\ \E i \in 1..Len(stream[s]) : stream[s][i].type = "text_end"

\* C2: when a read (or fetch) rejects with message m, the run's terminal
\* event is an error event with reason error whose payload has stopReason
\* error and errorMessage m, stream.end follows it, and the log holds no done.
C2_ThrowEndsInError ==
  [][\A s \in Streams, m \in TransportErrors :
       (ReadThrow(s, m) \/ FetchReject(s, m) \/ SdkThrow(s, m) \/ SdkConnectReject(s, m)) =>
         LET log == stream'[s]
             n == Len(log)
         IN /\ n >= 2
            /\ log[n] = EndCall
            /\ log[n - 1].type = "error"
            /\ log[n - 1].reason = "error"
            /\ log[n - 1].error.stopReason = "error"
            /\ log[n - 1].error.errorMessage = m
            /\ \A i \in 1..n : log[i].type # "done"]_vars

C2_Witness ==
  \E s \in Streams :
    LET log == stream[s] IN
    /\ pc[s] = "ended"
    /\ log[1].type = "start"
    /\ \E i \in 1..Len(log) : log[i].type = "text_delta"
    /\ log[Len(log) - 1].type = "error"
    /\ Has(log[Len(log) - 1].error, "errorMessage")
    /\ log[Len(log) - 1].error.errorMessage = Str("The operation was aborted")

\* C3: at most one text/thinking block is open at any time: after a
\* text_start or thinking_start no other start event (text, thinking or
\* toolcall) comes before the matching end event; the open block is the last
\* entry of the content; and an end event is emitted while its block is still
\* the last entry, so a block is closed before the toolCall entry is appended.
C3_SingleOpenBlock ==
  \A s \in Streams :
    LET log == stream[s]
        content == output[s].content
    IN /\ \A i \in 1..Len(log) : \A j \in (i + 1)..Len(log) :
            (log[i].type \in BlockStartTypes /\ log[j].type \in StartTypes) =>
              \E k \in (i + 1)..(j - 1) : log[k].type = EndOf(log[i].type)
       /\ \A k \in 1..Len(log) :
            log[k].type \in BlockEndTypes =>
              /\ log[k].contentIndex + 1 \in 1..Len(content)
              /\ content[log[k].contentIndex + 1].type = KindOf(log[k].type)
       /\ currentBlock[s] # 0 =>
            /\ currentBlock[s] = Len(content)
            /\ content[currentBlock[s]].type \in {"text", "thinking"}

C3_Witness ==
  \E s \in Streams :
    LET log == stream[s] IN
    /\ currentBlock[s] # 0
    /\ \E k \in 2..Len(log) :
         /\ log[k].type = "toolcall_start"
         /\ log[k - 1].type \in BlockEndTypes
         /\ \E j \in (k + 1)..Len(log) : log[j].type \in BlockStartTypes

Structural(e) == e.type \in StartTypes \cup BlockEndTypes \/ IsNormalTerminal(e)

MarkerOf(fc) == IF Has(fc, "args") /\ Marker \in DOMAIN fc.args THEN fc.args[Marker] ELSE NoId
ServerIdOf(fc) == IF Has(fc, "id") THEN fc.id ELSE NoId

\* C7: the id of every resolved tool call follows the precedence marker value
\* (when the arguments carry a non-empty one), else server id (when the part
\* has a non-empty one), else a synthesized id; the k-th toolCall entry comes
\* from the k-th functionCall part received.
C7_IdPrecedence ==
  \A s \in Streams :
    impl = "sse" =>
      LET fcs == FunctionCallParts(AllParts(chunks[s]))
          tcs == ToolCalls(output[s].content)
      IN /\ Len(fcs) = Len(tcs)
         /\ \A i \in 1..Len(fcs) :
              LET fc == fcs[i].functionCall IN
              IF Truthy(MarkerOf(fc)) THEN tcs[i].id = MarkerOf(fc)
              ELSE IF Truthy(ServerIdOf(fc)) THEN tcs[i].id = ServerIdOf(fc)
              ELSE IsSynth(tcs[i].id)

C7_Witness ==
  \E s \in Streams :
    /\ impl = "sse"
    /\ \E i \in 1..Len(ToolCalls(output[s].content)) :
         LET fc == FunctionCallParts(AllParts(chunks[s]))[i].functionCall IN
         /\ Truthy(MarkerOf(fc))
         /\ Truthy(ServerIdOf(fc))
         /\ ToolCalls(output[s].content)[i].id = Str("call_1")

\* C8: every ToolCall handed to the consumer (the toolCall entries of the
\* content, the toolCall of toolcall_end, the arguments serialized in
\* toolcall_delta) has a non-empty id and arguments without the marker key.
C8_MarkerFreeNonEmptyId ==
  \A s \in Streams :
    impl = "sse" =>
      /\ \A i \in 1..Len(output[s].content) :
           LET e == output[s].content[i] IN
           e.type = "toolCall" => Truthy(e.id) /\ Marker \notin DOMAIN e.arguments
      /\ \A k \in 1..Len(stream[s]) :
           LET e == stream[s][k] IN
           /\ e.type = "toolcall_end" =>
                Truthy(e.toolCall.id) /\ Marker \notin DOMAIN e.toolCall.arguments
           /\ e.type = "toolcall_delta" => \A kv \in e.delta : kv[1] # Marker

C8_Witness ==
  \E s \in Streams :
    /\ impl = "sse"
    /\ LET fcs == FunctionCallParts(AllParts(chunks[s])) IN
       /\ \E i \in 1..Len(fcs) : Truthy(MarkerOf(fcs[i].functionCall))
       /\ \E i \in 1..Len(fcs) :
            \/ ~Has(fcs[i].functionCall, "args")
            \/ /\ Marker \in DOMAIN fcs[i].functionCall.args
               /\ ~Truthy(MarkerOf(fcs[i].functionCall))
    /\ \E k \in 1..Len(stream[s]) : stream[s][k].type = "toolcall_end"

\* C9: within one stream two tool calls with synthesized ids have different
\* ids, and a synthesized id is made of the function name, a timestamp and a
\* counter value, both natural numbers.
C9_SynthesizedIdsUnique ==
  \A s \in Streams :
    LET tcs == ToolCalls(output[s].content) IN
    /\ \A i \in 1..Len(tcs) : \A j \in 1..Len(tcs) :
         (i # j /\ IsSynth(tcs[i].id) /\ IsSynth(tcs[j].id)) => tcs[i].id # tcs[j].id
    /\ \A i \in 1..Len(tcs) :
         IsSynth(tcs[i].id) =>
           /\ DOMAIN tcs[i].id = {"name", "ts", "n"}
           /\ tcs[i].id.name = tcs[i].name
           /\ tcs[i].id.ts \in Nat
           /\ tcs[i].id.n \in Nat

C9_Witness ==
  \E s \in Streams :
    LET tcs == ToolCalls(output[s].content) IN
    \E i \in 1..Len(tcs) : \E j \in 1..Len(tcs) :
      /\ i # j
      /\ IsSynth(tcs[i].id) /\ IsSynth(tcs[j].id)
      /\ tcs[i].id.name = tcs[j].id.name
      /\ tcs[i].id.ts = tcs[j].id.ts

FreshSt ==
  [content |-> <<>>, stopReason |-> "stop",
   usage |-> [input |-> 0, output |-> 0, totalTokens |-> 0],
   currentBlock |-> 0, events |-> <<[type |-> "start"]>>, counter |-> 0,
   chunks |-> <<>>, warnings |-> 0, model |-> Priced]

\* the whole of `bytes` delivered by the first read of a fresh stream
OneRead(bytes) ==
  LET d == decode(<<>>, bytes)
      lines == split(d.out)
  IN ProcessLines(FreshSt, Front(lines), 0)

\* an event log without the timestamps of the synthesized ids
StripTs(log) ==
  [k \in 1..Len(log) |->
     IF Has(log[k], "toolCall") /\ IsSynth(log[k].toolCall.id)
       THEN [log[k] EXCEPT !.toolCall.id.ts = 0]
       ELSE log[k]]

\* C5: however the bytes delivered so far were split into reads, the chunks
\* decoded and the events pushed (timestamps of synthesized ids aside) are
\* those of one read delivering all of them at once; the same holds of the
\* whole run when the stream ends normally.
C5_ChunkBoundaryInvariance ==
  \A s \in Streams :
    (impl = "sse" /\ stream[s] # <<>> /\ stream[s][1].type = "start") =>
      LET ref == OneRead(SubSeq(wire[s], 1, rpos[s])) IN
      /\ chunks[s] = ref.chunks
      /\ pc[s] = "reading" => StripTs(stream[s]) = StripTs(ref.events)
      /\ (pc[s] = "ended" /\ IsNormalTerminal(stream[s][Len(stream[s]) - 1])) =>
           StripTs(stream[s]) =
             StripTs(Append(Terminal(CloseRemaining(ref)).events, EndCall))

C5_Witness ==
  \E s \in Streams :
    /\ impl = "sse"
    /\ pc[s] = "reading"
    /\ decoder[s] # <<>>
    /\ buffer[s] # <<>>
    /\ Len(chunks[s]) >= 1
    /\ \E k \in 1..Len(stream[s]) : stream[s][k].type = "text_delta"

ToolCallBlocks(ctx) ==
  Flatten([i \in 1..Len(ctx.messages) |->
             IF ctx.messages[i].role = "assistant"
               THEN SelectSeq(ctx.messages[i].content.blocks,
                              LAMBDA b : b.type = "toolCall")
               ELSE <<>>])

\* C6: when the i-th functionCall part received has the name and the
\* arguments (marker included) of the i-th functionCall part sent, the i-th
\* resolved tool call has the id and the arguments of the toolCall block that
\* part was made from, and no marker key.
C6_RoundTrip ==
  \A s \in Streams :
    impl = "sse" =>
      LET blocks == ToolCallBlocks(context[s])
          sent == FunctionCallParts(SentParts(request[s].contents))
          got == FunctionCallParts(AllParts(chunks[s]))
          tcs == ToolCalls(output[s].content)
      IN \A i \in 1..Len(tcs) :
           ( /\ i <= Len(sent)
             /\ Marker \in DOMAIN sent[i].functionCall.args
             /\ got[i].functionCall.name = sent[i].functionCall.name
             /\ Has(got[i].functionCall, "args")
             /\ got[i].functionCall.args = sent[i].functionCall.args )
           => /\ tcs[i].id = blocks[i].id
              /\ tcs[i].arguments = blocks[i].arguments
              /\ Marker \notin DOMAIN tcs[i].arguments

C6_Witness ==
  \E s \in Streams :
    LET blocks == ToolCallBlocks(context[s])
        got == FunctionCallParts(AllParts(chunks[s]))
        tcs == ToolCalls(output[s].content)
    IN /\ impl = "sse"
       /\ pc[s] = "ended"
       /\ Len(tcs) = 2
       /\ Len(blocks) = 2
       /\ blocks[1].arguments = Weather
       /\ Truthy(ServerIdOf(got[1].functionCall))
       /\ tcs[1] = blocks[1]
       /\ IsSynth(blocks[2].id)
       /\ tcs[2].id = blocks[2].id

SynthCounters(content) ==
  LET tcs == SelectSeq(content, LAMBDA e : e.type = "toolCall" /\ IsSynth(e.id))
  IN [i \in 1..Len(tcs) |-> tcs[i].id.n]

\* C10: the counter is scoped to one request: in every stream the k-th
\* synthesized id carries the counter value k, whatever other streams did.
C10_CounterPerStream ==
  \A s \in Streams :
    \A i \in 1..Len(SynthCounters(output[s].content)) :
      SynthCounters(output[s].content)[i] = i

(***************************************************************************)
(* Stop reason and terminal event.                                         *)
(***************************************************************************)
\* the terminal event of an ended run
TerminalOf(log) == log[Len(log) - 1]

\* the position in chs of the last chunk that carried a finishReason (0: none)
LastFinish(chs) ==
  LET ks == {k \in 1..Len(chs) : chs[k].finishReason # ""} IN
  IF ks = {} THEN 0 ELSE CHOOSE k \in ks : \A j \in ks : j <= k

\* C11: when the content holds a toolCall entry at the end of the stream, the
\* terminal event is done with reason toolUse, whatever finishReason values
\* were received and wherever they occurred.
C11_ToolCallForcesToolUse ==
  \A s \in Streams :
    (pc[s] = "ended" /\ IsNormalTerminal(TerminalOf(stream[s]))
       /\ HasToolCall(output[s].content))
    => /\ TerminalOf(stream[s]).type = "done"
       /\ TerminalOf(stream[s]).reason = "toolUse"

C13_StopReasonAndTerminal ==
  \A s \in Streams :
    LET chs == chunks[s]
        k == LastFinish(chs)
        out == output[s]
        t == TerminalOf(stream[s])
    IN /\ k = 0 => out.stopReason = "stop"
       /\ (k > 0 /\ ~HasToolCall(out.content)) =>
            out.stopReason =
              CASE chs[k].finishReason = "STOP" -> "stop"
                [] chs[k].finishReason = "MAX_TOKENS" -> "length"
                [] chs[k].finishReason = "SAFETY" -> "error"
                [] chs[k].finishReason = "RECITATION" -> "error"
                [] OTHER -> "stop"
       /\ (pc[s] = "ended" /\ IsNormalTerminal(t)) =>
            IF out.stopReason \in {"stop", "length", "toolUse"}
              THEN t.type = "done" /\ t.reason = out.stopReason
              ELSE /\ t.type = "error"
                   /\ t.reason = "error"
                   /\ t.error.stopReason = "error"
                   /\ t.error.content = out.content
                   /\ t.error.usage = out.usage

C13_Witness ==
  \E s \in Streams :
    LET chs == chunks[s] IN
    /\ pc[s] = "ended"
    /\ Len(chs) = 2
    /\ chs[1].finishReason = "SAFETY"
    /\ chs[2].finishReason = "MAX_TOKENS"
    /\ TerminalOf(stream[s]).type = "done"
    /\ TerminalOf(stream[s]).reason = "length"

(***************************************************************************)
(* The events of a tool call.                                              *)
(***************************************************************************)
\* the positions in the log of the events of type t, in order
PositionsOf(log, t) ==
  LET RECURSIVE From(_)
      From(i) == IF i > Len(log) THEN <<>>
                 ELSE IF log[i].type = t THEN <<i>> \o From(i + 1) ELSE From(i + 1)
  IN From(1)

\* the positions in the content of its toolCall entries, in order
ToolCallPositions(content) ==
  LET RECURSIVE From(_)
      From(i) == IF i > Len(content) THEN <<>>
                 ELSE IF content[i].type = "toolCall" THEN <<i>> \o From(i + 1)
                 ELSE From(i + 1)
  IN From(1)

C15_StartInEveryRun ==
  \A s \in Streams :
    pc[s] = "ended" =>
      /\ stream[s][1].type = "start"
      /\ Len(PositionsOf(stream[s], "start")) = 1

\* C15 (amended): start is pushed at most once; a run that has got to its
\* response stream has pushed start as its first event, so every block event
\* and the terminal event come after it; a run that failed before that has
\* pushed nothing but the error event.
C15_StartFirst ==
  \A s \in Streams :
    LET log == stream[s] IN
    /\ Len(PositionsOf(log, "start")) <= 1
    /\ log # <<>> =>
         \/ log[1].type = "start"
         \/ Len(log) = 2 /\ log[1].type = "error" /\ log[2] = EndCall
    /\ pc[s] \in {"connecting", "reading", "iterating"} => log # <<>> /\ log[1].type = "start"
    /\ pc[s] \in {"unused", "idle", "fetching", "errbody"} => log = <<>>

C15_Witness ==
  \E s \in Streams :
    LET log == stream[s] IN
    /\ impl = "sse"
    /\ pc[s] = "ended"
    /\ log[1].type = "start"
    /\ log[2].type = "text_start"
    /\ \E i \in 3..Len(log) : log[i].type = "toolcall_end"
    /\ TerminalOf(log).type = "done"

(***************************************************************************)
(* Failures before the stream is read.                                     *)
(***************************************************************************)
\* C16: a call without an API key never builds or sends a request and reads
\* no byte of any response; its log is the error event, carrying the message
\* of the missing credential, followed by end, and nothing else.
C16_MissingKeyFailsAtOnce ==
  \A s \in Streams :
    apiKey[s] = "" =>
      /\ pc[s] \in {"unused", "idle", "ended"}
      /\ request[s].contents = <<>>
      /\ rpos[s] = 0
      /\ chunks[s] = <<>>
      /\ pc[s] = "ended" =>
           stream[s] = <<[type |-> "error", reason |-> "error",
                          error |-> [content |-> <<>>, stopReason |-> "error",
                                     usage |-> NewOutput.usage,
                                     errorMessage |-> Str("Vertex AI requires an API key")]],
                         EndCall>>

C16_Witness ==
  \E s \in Streams :
    /\ impl = "sse"
    /\ apiKey[s] = ""
    /\ wire[s] # <<>>
    /\ pc[s] = "ended"
    /\ Len(stream[s]) = 2

\* C17: a response that is not ok, or that has no body, aborts the run: the
\* step that sees the status only starts reading the error body; the step
\* that ends the run leaves a log made of the error event and end, with
\* nothing parsed (no chunk decoded, no byte read, no content); the message
\* is the status with the body text when that text could be read, and
\* "Response body is null" when the body is absent.
C17_TransportErrorAborts ==
  [][\A s \in Streams :
       /\ FetchNotOk(s) =>
            /\ pc'[s] = "errbody"
            /\ stream'[s] = <<>>
       /\ (ErrorBody(s) \/ FetchNoBody(s)) =>
            LET log == stream'[s] IN
            /\ Len(log) = 2
            /\ log[1].type = "error"
            /\ log[1].reason = "error"
            /\ log[2] = EndCall
            /\ chunks'[s] = <<>>
            /\ rpos'[s] = 0
            /\ output'[s].content = <<>>
            /\ log[1].error.content = <<>>
            /\ IF FetchNoBody(s)
                 THEN log[1].error.errorMessage = Str("Response body is null")
                 ELSE \/ \E st \in ErrorStatuses, t \in ErrorTexts :
                           log[1].error.errorMessage =
                             [text |-> "Vertex AI request failed: ", status |-> st,
                              errorText |-> t]
                      \/ log[1].error.errorMessage \in TransportErrors]_vars

\* a 500 with the body "boom", on a response whose bytes were never parsed
C17_Witness ==
  \E s \in Streams :
    /\ pc[s] = "ended"
    /\ wire[s] # <<>>
    /\ Len(stream[s]) = 2
    /\ stream[s][1].type = "error"
    /\ stream[s][1].error.errorMessage =
         [text |-> "Vertex AI request failed: ", status |-> "500", errorText |-> "boom"]

(***************************************************************************)
(* Lines that carry no chunk.                                              *)
(***************************************************************************)
RECURSIVE JoinLines(_)
JoinLines(lines) ==
  IF Len(lines) = 1 THEN lines[1]
  ELSE lines[1] \o <<NL>> \o JoinLines(Tail(lines))

\* a data line whose payload is not valid JSON
MalformedLine(line) ==
  /\ startsWith(line, DataPrefix)
  /\ slice(line, DataPrefixLen) # DoneSentinel
  /\ ~JSONparse(slice(line, DataPrefixLen)).ok

\* a blank line, a comment, a line without the data prefix, the sentinel
IgnoredLine(line) ==
  \/ \A i \in 1..Len(line) : line[i].b \in {" ", "\r", "\t"}
  \/ (line # <<>> /\ line[1] = B(":"))
  \/ ~startsWith(line, DataPrefix)
  \/ line = DataPrefix \o DoneSentinel

\* the complete lines of `bytes`, decoded
CompleteLines(bytes) ==
  LET lines == Front(split(bytes)) IN
  [i \in 1..Len(lines) |-> decode(<<>>, lines[i]).out]

\* `bytes` without its complete lines that are malformed data lines; the
\* trailing partial line is kept
WithoutMalformed(bytes) ==
  LET lines == split(bytes)
      kept == SelectSeq(Front(lines), LAMBDA l : ~MalformedLine(decode(<<>>, l).out))
  IN JoinLines(Append(kept, Last(lines)))

\* `bytes` without its complete lines that are ignored lines
WithoutIgnored(bytes) ==
  LET lines == split(bytes)
      kept == SelectSeq(Front(lines), LAMBDA l : ~IgnoredLine(decode(<<>>, l).out))
  IN JoinLines(Append(kept, Last(lines)))

\* a content without the timestamps of the synthesized ids
StripContentTs(content) ==
  [k \in 1..Len(content) |->
     IF content[k].type = "toolCall" /\ IsSynth(content[k].id)
       THEN [content[k] EXCEPT !.id.ts = 0]
       ELSE content[k]]

\* the run of stream s stands where one read of `bytes` would have left it
\* (pending buffer, open block, content, stop reason, usage, chunks, events)
StandsAsAfter(s, bytes) ==
  LET ref == OneRead(bytes)
      log == stream[s]
  IN /\ buffer[s] = Last(split(decode(<<>>, bytes).out))
     /\ currentBlock[s] = ref.currentBlock
     /\ StripContentTs(output[s].content) = StripContentTs(ref.content)
     /\ output[s].stopReason = ref.stopReason
     /\ output[s].usage = ref.usage
     /\ chunks[s] = ref.chunks
     /\ IF pc[s] = "reading"
          THEN StripTs(log) = StripTs(ref.events)
          ELSE StripTs(log) = StripTs(Append(Terminal(CloseRemaining(ref)).events, EndCall))

\* the runs the two claims speak of: reading, or ended by the end of the stream
ReadingOrDone(s) ==
  /\ impl = "sse"
  /\ \/ pc[s] = "reading"
     \/ pc[s] = "ended" /\ stream[s][1].type = "start"
                        /\ IsNormalTerminal(TerminalOf(stream[s]))

\* C18: data lines whose payload is not valid JSON change nothing: the run
\* stands exactly where it would stand had those lines not been in the
\* response (same pending buffer, open block, content, stop reason, usage,
\* chunks and events), each of them has only produced a warning, and the run
\* goes on to its normal end.
C18_MalformedLineSkipped ==
  \A s \in Streams :
    ReadingOrDone(s) =>
      LET delivered == SubSeq(wire[s], 1, rpos[s]) IN
      /\ StandsAsAfter(s, WithoutMalformed(delivered))
      /\ warnings[s] = Len(SelectSeq(CompleteLines(delivered), MalformedLine))

\* an open text block, then a malformed line, read to the end
C18_Witness ==
  \E s \in Streams :
    /\ impl = "sse"
    /\ pc[s] = "ended"
    /\ IsNormalTerminal(TerminalOf(stream[s]))
    /\ wire[s] = DataLine(TextItem(<<"c3", "a9">>)) \o DataPrefix \o <<B("{"), Quote, B("x"), NL>>
    /\ warnings[s] = 1
    /\ Len(chunks[s]) = 1

\* C19: blank lines, comments, lines without the data prefix and the
\* sentinel change nothing: the run stands exactly where it would stand had
\* those lines not been in the response, the sentinel included; none of them
\* reaches JSON.parse (no parse warning comes from them), and the lines after
\* a sentinel are processed.
C19_IgnoredLinesSkipped ==
  \A s \in Streams :
    ReadingOrDone(s) =>
      LET delivered == SubSeq(wire[s], 1, rpos[s])
          kept == WithoutIgnored(delivered)
      IN /\ StandsAsAfter(s, kept)
         /\ warnings[s] = OneRead(kept).warnings

\* the sentinel, then a data line, both read
C19_Witness ==
  \E s \in Streams :
    /\ impl = "sse"
    /\ pc[s] = "reading"
    /\ wire[s] = DataPrefix \o DoneSentinel \o <<NL>> \o DataLine(TextItem(<<"c3", "a9">>))
    /\ rpos[s] = Len(wire[s])
    /\ Len(chunks[s]) = 1
    /\ warnings[s] = 0

(***************************************************************************)
(* Usage.                                                                  *)
(***************************************************************************)
\* the position in chs of the last chunk that carried usageMetadata (0: none)
LastUsage(chs) ==
  LET ks == {k \in 1..Len(chs) : "usageMetadata" \in DOMAIN chs[k]} IN
  IF ks = {} THEN 0 ELSE CHOOSE k \in ks : \A j \in ks : j <= k

Built(s) == impl = "sse" /\ pc[s] \notin {"idle", "unused"} /\ apiKey[s] # ""

\* the Context cut after its first n messages
Prefix(ctx, n) == [messages |-> SubSeq(ctx.messages, 1, n)]

\* the entries of requestBody.contents pushed while the loop was at message i
ContentsOf(s, i) ==
  LET ctx == context[s] IN
  SubSeq(request[s].contents,
         Len(convertMessagesToGoogleFormat(Prefix(ctx, i - 1))) + 1,
         Len(convertMessagesToGoogleFormat(Prefix(ctx, i))))

\* C21: no entry of requestBody.contents has an empty parts list.
C21_NoEmptyParts ==
  \A s \in Streams :
    \A j \in 1..Len(request[s].contents) : Len(request[s].contents[j].parts) > 0

\* entry c of contents can be what message m was converted to: the role of
\* m's kind, and parts of the kinds m's blocks map to
FromMessage(c, m) ==
  IF m.role = "assistant"
    THEN /\ c.role = "model"
         /\ \A k \in 1..Len(c.parts) :
              Has(c.parts[k], "text") \/ Has(c.parts[k], "functionCall")
  ELSE IF m.role = "toolResult"
    THEN /\ c.role = "user"
         /\ \A k \in 1..Len(c.parts) :
              /\ Has(c.parts[k], "functionResponse")
              /\ c.parts[k].functionResponse.name = m.toolName
  ELSE /\ c.role = "user"
       /\ \A k \in 1..Len(c.parts) :
            Has(c.parts[k], "text") \/ Has(c.parts[k], "inlineData")

TextBlocks(msg) == SelectSeq(msg.content.blocks, LAMBDA b : b.type = "text")

\* C24: every toolResult message gives one entry of contents, with a single
\* functionResponse part named after the tool whose response is the
\* message's text under the key result.
C24_OneFunctionResponse ==
  \A s \in Streams :
    Built(s) =>
      \A i \in 1..Len(context[s].messages) :
        LET msg == context[s].messages[i]
            cs == ContentsOf(s, i)
        IN msg.role = "toolResult" =>
             /\ Len(cs) = 1
             /\ Len(cs[1].parts) = 1
             /\ Has(cs[1].parts[1], "functionResponse")
             /\ cs[1].parts[1].functionResponse.name = msg.toolName
             /\ \E k \in 1..Len(TextBlocks(msg)) :
                  cs[1].parts[1].functionResponse.response =
                    [result |-> TextBlocks(msg)[k].text]

C26_ToolsGrouped ==
  \A s \in Streams :
    Built(s) =>
      LET ctx == context[s]
          req == request[s]
      IN IF Has(ctx, "tools") /\ Len(ctx.tools) > 0
           THEN /\ Has(req, "tools")
                /\ Len(req.tools) = 1
                /\ DOMAIN req.tools[1] = {"functionDeclarations"}
                /\ LET fd == req.tools[1].functionDeclarations IN
                   /\ Len(fd) = Len(ctx.tools)
                   /\ \A i \in 1..Len(fd) :
                        fd[i] = [name |-> ctx.tools[i].name,
                                 description |-> ctx.tools[i].description,
                                 parameters |-> ctx.tools[i].parameters]
           ELSE /\ ~Has(req, "tools")
                /\ ~Has(req, "toolConfig")

\* two tools sent under one entry, with a tool choice
C26_Witness ==
  \E s \in Streams :
    /\ Built(s)
    /\ Has(context[s], "tools")
    /\ Len(context[s].tools) = 2
    /\ toolChoice[s] = "any"
    /\ Len(request[s].tools) = 1
    /\ Len(request[s].tools[1].functionDeclarations) = 2
    /\ request[s].tools[1].functionDeclarations[1].name = "lookup"
    /\ request[s].toolConfig.functionCallingConfig.mode = "ANY"

(***************************************************************************)
(* thoughtSignature.                                                       *)
(***************************************************************************)
\* the thoughtSignature of a part or of a block: <<v>>, or <<>> when it has none
SignatureOf(x) == IF Has(x, "thoughtSignature") THEN <<x.thoughtSignature>> ELSE <<>>

\* C27: every toolCall entry of the output has the thoughtSignature of the
\* functionCall part it was made from, and none when that part has none; and
\* the functionCall part that entry is sent as, once it is a block of a later
\* Context, has the same thoughtSignature.
C27_SignatureRoundTrip ==
  \A s \in Streams :
    impl = "sse" =>
      LET got == FunctionCallParts(AllParts(chunks[s]))
          tcs == ToolCalls(output[s].content)
      IN \A i \in 1..Len(tcs) :
           /\ SignatureOf(tcs[i]) = SignatureOf(got[i])
           /\ SignatureOf(AssistantBlockParts(tcs[i])[1]) = SignatureOf(tcs[i])

\* C27, as the code has it: every toolCall entry of the output has the
\* thoughtSignature of the functionCall part it was made from, and none when
\* that part has none; the functionCall part that entry is sent as has the
\* same thoughtSignature when it is not the empty string, and none otherwise.
C27_NonEmptySignatureRoundTrip ==
  \A s \in Streams :
    impl = "sse" =>
      LET got == FunctionCallParts(AllParts(chunks[s]))
          tcs == ToolCalls(output[s].content)
      IN \A i \in 1..Len(tcs) :
           /\ SignatureOf(tcs[i]) = SignatureOf(got[i])
           /\ SignatureOf(AssistantBlockParts(tcs[i])[1]) =
                IF SignatureOf(tcs[i]) = <<"">> THEN <<>> ELSE SignatureOf(tcs[i])

\* tool calls received with a signature, with an empty one and with none
C27_Witness ==
  \E s \in Streams :
    LET tcs == ToolCalls(output[s].content) IN
    /\ impl = "sse"
    /\ Len(tcs) = 3
    /\ SignatureOf(tcs[1]) = <<>>
    /\ SignatureOf(tcs[2]) = <<"">>
    /\ SignatureOf(tcs[3]) = <<"test_signature_123">>
    /\ SignatureOf(AssistantBlockParts(tcs[3])[1]) = <<"test_signature_123">>

(***************************************************************************)
(* Concurrent calls.                                                       *)
(***************************************************************************)
RECURSIVE SdkProcessChunks(_, _, _)
\* the passes of the for-await loop over the chunks chs
SdkProcessChunks(st, chs, ts) ==
  IF chs = <<>> THEN st
  ELSE SdkProcessChunks(SdkProcessChunk(st, Head(chs), ts), Tail(chs), ts)

\* an event log without the digits of the synthesized ids (timestamp and
\* counter), in the events and in the message of a terminal error
StripDigits(log) ==
  LET strip(e) == IF e.type = "toolCall" /\ IsSynth(e.id)
                    THEN [e EXCEPT !.id.ts = 0, !.id.n = 0] ELSE e
  IN [k \in 1..Len(log) |->
        IF Has(log[k], "toolCall") THEN [log[k] EXCEPT !.toolCall = strip(@)]
        ELSE IF Has(log[k], "error")
          THEN [log[k] EXCEPT !.error.content = [i \in 1..Len(@) |-> strip(@[i])]]
          ELSE log[k]]

\* where call s would stand had it run alone on what it has received so far
Alone(s) ==
  IF impl = "sse"
    THEN OneRead(SubSeq(wire[s], 1, rpos[s]))
    ELSE SdkProcessChunks(FreshSt, SubSeq(response[s], 1, rpos[s]), 0)

\* the events call s would have pushed had it run alone with its own key,
\* response and transport failure
AloneLog(s) ==
  LET ref == Alone(s)
      started == stream[s] # <<>> /\ stream[s][1].type = "start"
      sofar == IF started THEN ref.events ELSE <<>>
  IN IF pc[s] # "ended" THEN sofar
     ELSE LET t == TerminalOf(stream[s]) IN
          IF Has(t, "error") /\ Has(t.error, "errorMessage")
            THEN sofar \o <<CatchEvent(ref, t.error.errorMessage), EndCall>>
            ELSE Append(Terminal(CloseRemaining(ref)).events, EndCall)

\* C28: whatever the other call has done, the events of a call are, the
\* digits of synthesized ids aside, those it would have pushed running alone
\* on its own key and on the part of its own response it has received.
C28_StreamsIsolated ==
  \A s \in Streams : StripDigits(stream[s]) = StripDigits(AloneLog(s))

\* both calls have pushed a tool call and hold an open text block
C28_Witness ==
  /\ \A s \in Streams :
       /\ pc[s] \in {"reading", "iterating"}
       /\ currentBlock[s] = 2
       /\ output[s].content[1].type = "toolCall"
  /\ toolCallCounter = 2

(***************************************************************************)
(* The partial field of the events.                                        *)
(***************************************************************************)
\* the events pushed with `partial: output` (done carries `message`, error
\* carries `error`)
HasPartial(e) == e.type \notin {"done", "error", "end"}

\* what reading the partial field of the k-th event of call s gives when the
\* accumulators stand as in outs: the field holds the object `output` of the
\* call, not a copy of it, so it gives what that object holds at the time
Partial(outs, s, k) == outs[s]

\* C29: what the consumer reads through the partial field of an event that
\* has been pushed does not change while the stream is being produced: it
\* stays what the accumulator held when the event was pushed.
C29_PartialIsSnapshot ==
  [][\A s \in Streams :
       \A k \in 1..Len(stream[s]) :
         (HasPartial(stream[s][k]) /\ pc[s] # "ended") =>
           Partial(output', s, k) = Partial(output, s, k)]_vars

(***************************************************************************)
(* Termination.                                                            *)
(***************************************************************************)
\* C30: every call that is made ends: its terminal event is pushed and the
\* stream is ended right after it.
C30_EveryRunEnds ==
  \A s \in Streams :
    pc[s] # "unused" =>
      <>(/\ pc[s] = "ended"
         /\ Len(stream[s]) >= 2
         /\ IsTerminal(TerminalOf(stream[s]))
         /\ Last(stream[s]) = EndCall)

\* a run that read its whole response in several reads and ended with done
C30_Witness ==
  \E s \in Streams :
    /\ impl = "sse"
    /\ pc[s] = "ended"
    /\ rpos[s] = Len(wire[s])
    /\ Len(wire[s]) > 0
    /\ Len(chunks[s]) = 1
    /\ buffer[s] = <<>>
    /\ TerminalOf(stream[s]).type = "done"

(***************************************************************************)
(* The content as the image of the parts received.                         *)
(***************************************************************************)
\* what the parts contribute, in order: the text of a part that has one,
\* then its functionCall when it has one
Atoms(parts) ==
  Flatten([i \in 1..Len(parts) |->
             (IF Has(parts[i], "text") THEN <<[text |-> parts[i].text]>> ELSE <<>>)
             \o (IF Has(parts[i], "functionCall")
                   THEN <<[call |-> parts[i].functionCall]>> ELSE <<>>)])

\* the positions of the functionCalls among the atoms, in order
CallPositions(atoms) ==
  LET RECURSIVE From(_)
      From(i) == IF i > Len(atoms) THEN <<>>
                 ELSE IF Has(atoms[i], "call") THEN <<i>> \o From(i + 1)
                 ELSE From(i + 1)
  IN From(1)

\* the elements of q strictly between positions lo and hi
Between(q, lo, hi) == SubSeq(q, lo + 1, hi - 1)

\* the content is the image of the atoms: the k-th toolCall entry is made
\* from the k-th functionCall, and between two consecutive functionCalls
\* (before the first, after the last) there is one text entry holding the
\* concatenation of the texts between them, or none when there is no text
IsImageOf(content, atoms) ==
  LET cp == CallPositions(atoms)
      tp == ToolCallPositions(content)
      K == Len(cp)
  IN /\ Len(tp) = K
     /\ \A k \in 1..K :
          LET e == content[tp[k]]
              fc == atoms[cp[k]].call
              args == IF Has(fc, "args") THEN fc.args ELSE EmptyMap
          IN /\ e.name = fc.name
             /\ e.arguments = [a \in DOMAIN args \ {Marker} |-> args[a]]
     /\ \A k \in 0..K :
          LET texts == Between(atoms, IF k = 0 THEN 0 ELSE cp[k],
                               IF k = K THEN Len(atoms) + 1 ELSE cp[k + 1])
              entries == Between(content, IF k = 0 THEN 0 ELSE tp[k],
                                 IF k = K THEN Len(content) + 1 ELSE tp[k + 1])
          IN IF texts = <<>> THEN entries = <<>>
             ELSE /\ Len(entries) = 1
                  /\ entries[1].type = "text"
                  /\ entries[1].text = Flatten([i \in 1..Len(texts) |-> texts[i].text])

\* the parts of a chunk that were processed: all of them, or those before
\* the first one whose processing threw
AppliedParts(chunk) ==
  LET k == FirstThrow(chunk.parts) IN
  IF k = 0 THEN chunk.parts ELSE SubSeq(chunk.parts, 1, k - 1)

EndedNormally(s) ==
  /\ pc[s] = "ended"
  /\ Len(stream[s]) >= 2
  /\ IsNormalTerminal(TerminalOf(stream[s]))

\* C31 as stated: after a stream that ended normally the content is the
\* in-order image of all the parts of every decoded chunk.
C31_ContentIsImage ==
  \A s \in Streams :
    (impl = "sse" /\ EndedNormally(s)) =>
      IsImageOf(output[s].content, Atoms(AllParts(chunks[s])))

\* C31 (amended): after a stream that ended normally the content is the
\* in-order image of the parts of every decoded chunk up to the first part of
\* the chunk whose processing threw: one toolCall entry per functionCall, one
\* text entry per maximal run of texts not separated by a functionCall.
C31_ContentIsImageOfApplied ==
  \A s \in Streams :
    (impl = "sse" /\ EndedNormally(s)) =>
      IsImageOf(output[s].content,
                Atoms(Flatten([i \in 1..Len(chunks[s]) |-> AppliedParts(chunks[s][i])])))

\* a run of texts spread over two chunks, the first of which threw after
\* its text, has become one text entry
C31_Witness ==
  \E s \in Streams :
    /\ impl = "sse" /\ EndedNormally(s)
    /\ Len(chunks[s]) = 2
    /\ FirstThrow(chunks[s][1].parts) > 1
    /\ Len(output[s].content) = 1
    /\ output[s].content[1].text = <<"a", "i">>

(***************************************************************************)
(* The content of an end event.                                            *)
(***************************************************************************)
\* the position of the start event an end event at position k closes: the
\* last text_start or thinking_start before it (0 when there is none)
StartOf(log, k) ==
  LET starts == {i \in 1..(k - 1) : log[i].type \in BlockStartTypes} IN
  IF starts = {} THEN 0 ELSE CHOOSE i \in starts : \A j \in starts : j <= i

\* the delta values of the events of type t between positions i and k
DeltasBetween(log, i, k, t) ==
  LET ds == SelectSeq(Between(log, i, k), LAMBDA e : e.type = t) IN
  Flatten([j \in 1..Len(ds) |-> ds[j].delta])

DeltaOf(t) == IF t = "text_end" THEN "text_delta" ELSE "thinking_delta"

\* C32: the content of every text_end (thinking_end) is the concatenation, in
\* order, of the deltas of the text_delta (thinking_delta) events since the
\* matching start event, and is the text held by the entry of the output
\* content the event points at.
C32_EndCarriesDeltas ==
  \A s \in Streams :
    LET log == stream[s]
        content == output[s].content
    IN \A k \in 1..Len(log) :
         log[k].type \in BlockEndTypes =>
           LET i == StartOf(log, k) IN
           /\ i > 0
           /\ EndOf(log[i].type) = log[k].type
           /\ log[k].content = DeltasBetween(log, i, k, DeltaOf(log[k].type))
           /\ log[k].contentIndex + 1 \in 1..Len(content)
           /\ BlockText(content[log[k].contentIndex + 1]) = log[k].content

\* a text_end whose non-empty content came in two deltas
C32_Witness ==
  \E s \in Streams :
    LET log == stream[s] IN
    \E k \in 1..Len(log) :
      /\ log[k].type = "text_end"
      /\ log[k].content # <<>>
      /\ Len(SelectSeq(Between(log, StartOf(log, k), k),
                       LAMBDA e : e.type = "text_delta")) >= 2

(***************************************************************************)
(* The contentIndex of the block events.                                   *)
(***************************************************************************)
BlockEvent(e) == Has(e, "contentIndex")

\* the kind of entry an event is about
EntryKind(t) ==
  IF t \in {"text_start", "text_delta", "text_end"} THEN "text"
  ELSE IF t \in {"thinking_start", "thinking_delta", "thinking_end"} THEN "thinking"
  ELSE "toolCall"

\* how many entries the content held when the event at position k was
\* pushed: every entry is appended right before its start event
EntriesAt(log, k) == Cardinality({i \in 1..k : log[i].type \in StartTypes})

\* C33: every block event carries a contentIndex that was a valid zero-based
\* index into the content when the event was pushed, namely that of the
\* entry appended last (the open text or thinking entry, or the toolCall
\* entry just appended), which is of the kind the event is about; and the
\* contentIndex values never decrease along the event sequence.
C33_ContentIndexValid ==
  \A s \in Streams :
    LET log == stream[s]
        content == output[s].content
    IN /\ \A k \in 1..Len(log) :
            BlockEvent(log[k]) =>
              /\ log[k].contentIndex \in 0..(EntriesAt(log, k) - 1)
              /\ log[k].contentIndex = EntriesAt(log, k) - 1
              /\ EntriesAt(log, k) <= Len(content)
              /\ content[log[k].contentIndex + 1].type = EntryKind(log[k].type)
       /\ \A j \in 1..Len(log) : \A k \in (j + 1)..Len(log) :
            (BlockEvent(log[j]) /\ BlockEvent(log[k])) =>
              log[j].contentIndex <= log[k].contentIndex

\* text events on entry 0, toolcall events on entry 1, text events on entry 2
C33_Witness ==
  \E s \in Streams :
    LET log == stream[s] IN
    /\ \E k \in 1..Len(log) : log[k].type = "text_end" /\ log[k].contentIndex = 0
    /\ \E k \in 1..Len(log) : log[k].type = "toolcall_end" /\ log[k].contentIndex = 1
    /\ \E k \in 1..Len(log) : log[k].type = "text_delta" /\ log[k].contentIndex = 2

(***************************************************************************)
(* The state of the read loop when it asks for the next read.              *)
(***************************************************************************)
\* the chunks carried by the lines, in order: the payloads of the data lines
\* that are not the sentinel and parse
ChunksOfLines(lines) ==
  LET carrying == SelectSeq(lines, LAMBDA l : ~IgnoredLine(l) /\ ~MalformedLine(l)) IN
  [i \in 1..Len(carrying) |-> JSONparse(slice(carrying[i], DataPrefixLen)).chunk]

\* C34: when the read loop is waiting for the next read, every complete line
\* received so far has been processed, in order (the chunks decoded are those
\* of the complete lines, one warning was given per malformed one), and the
\* pending buffer holds no newline: it is the text received after the last
\* newline and nothing else.
C34_NoNewlinePending ==
  \A s \in Streams :
    (impl = "sse" /\ pc[s] = "reading") =>
      LET text == decode(<<>>, SubSeq(wire[s], 1, rpos[s])).out
          complete == Front(split(text))
      IN /\ \A i \in 1..Len(buffer[s]) : buffer[s][i] # NL
         /\ buffer[s] = Last(split(text))
         /\ chunks[s] = ChunksOfLines(complete)
         /\ warnings[s] = Len(SelectSeq(complete, MalformedLine))

\* the whole body has been delivered, one line was processed and the
\* unterminated rest is pending
C34_Witness ==
  \E s \in Streams :
    /\ impl = "sse" /\ pc[s] = "reading"
    /\ rpos[s] = Len(wire[s])
    /\ buffer[s] # <<>>
    /\ Len(chunks[s]) = 1

(***************************************************************************)
(* The ids of the tool calls of one stream.                                *)
(***************************************************************************)
\* C35: within one stream the ids of the toolCall entries of the content are
\* pairwise distinct, whatever ids the response carries in markers or as
\* server ids, repeated or not.
C35_IdsDistinct ==
  \A s \in Streams :
    LET tcs == ToolCalls(output[s].content) IN
    \A i \in 1..Len(tcs) : \A j \in (i + 1)..Len(tcs) : tcs[i].id # tcs[j].id

(***************************************************************************)
(* An exception while a block is open.                                     *)
(***************************************************************************)
\* the run of s was ended by the catch block
EndedByCatch(s) ==
  /\ pc[s] = "ended"
  /\ Len(stream[s]) >= 2
  /\ LET e == TerminalOf(stream[s]) IN
       e.type = "error" /\ Has(e.error, "errorMessage")

\* C36: when a run is ended by an exception while a text or thinking block
\* is open, the block gets no end event: after its start event the log holds
\* only its deltas, then the error event and the end of the stream.
C36_ThrowLeavesBlockOpen ==
  \A s \in Streams :
    (EndedByCatch(s) /\ currentBlock[s] # 0) =>
      LET log == stream[s]
          n == Len(log)
          i == StartOf(log, n)
      IN /\ i > 0
         /\ log[n] = EndCall
         /\ \A k \in (i + 1)..(n - 2) :
              log[k].type = IF log[i].type = "text_start" THEN "text_delta"
                            ELSE "thinking_delta"
         /\ \A k \in 1..n : log[k].type \in BlockEndTypes => k < i

\* a read threw while a text block with a delta was open
C36_Witness ==
  \E s \in Streams :
    LET log == stream[s] IN
    /\ EndedByCatch(s) /\ currentBlock[s] # 0
    /\ Len(log) >= 4
    /\ log[Len(log) - 2].type = "text_delta"
    /\ log[Len(log) - 1].error.errorMessage \in TransportErrors

(***************************************************************************)
(* The pending buffer at the end of the stream.                            *)
(***************************************************************************)
\* a data line with a payload that parses (were it terminated by a newline)
ParsableLine(line) ==
  /\ startsWith(line, DataPrefix)
  /\ slice(line, DataPrefixLen) # DoneSentinel
  /\ JSONparse(slice(line, DataPrefixLen)).ok

\* C37: when the transport signals the end of the stream, what is left in
\* the pending buffer is not parsed: the step decodes no chunk, gives no
\* warning, leaves content, stop reason and usage as they are, and pushes
\* nothing but the end event of the open block, the terminal event and end.
C37_PendingDiscarded ==
  [][\A s \in Streams :
       (impl = "sse" /\ pc[s] = "reading" /\ pc'[s] = "ended"
          /\ IsNormalTerminal(TerminalOf(stream'[s]))) =>
         /\ chunks'[s] = chunks[s]
         /\ warnings'[s] = warnings[s]
         /\ output'[s] = output[s]
         /\ LET m == Len(stream[s])
                n == Len(stream'[s])
            IN /\ SubSeq(stream'[s], 1, m) = stream[s]
               /\ n - m \in {2, 3}
               /\ n - m = 3 => stream'[s][m + 1].type \in BlockEndTypes
               /\ currentBlock[s] # 0 <=> n - m = 3]_vars

\* a run ended normally with a whole data line, less its newline, pending:
\* its text part is nowhere in the content
C37_Witness ==
  \E s \in Streams :
    /\ impl = "sse" /\ EndedNormally(s)
    /\ ParsableLine(buffer[s])
    /\ JSONparse(slice(buffer[s], DataPrefixLen)).chunk.parts # <<>>
    /\ chunks[s] = <<>>
    /\ output[s].content = <<>>

(***************************************************************************)
(* Chunks after a finishReason.                                            *)
(***************************************************************************)
\* the stop reason a finishReason stands for when there is no tool call
ReasonFor(finishReason) ==
  IF finishReason = "MAX_TOKENS" THEN "length"
  ELSE IF finishReason \in {"SAFETY", "RECITATION"} THEN "error"
  ELSE "stop"

ChunkThrew(chunk, m) ==
  \/ FirstThrow(chunk.parts) > 0
  \/ (Has(chunk, "usageMetadata") /\ calculateCostThrows(m))

\* a chunk reduced to the parts before the throw, without finishReason and
\* usageMetadata
CutAtThrow(chunk) == [parts |-> AppliedParts(chunk), finishReason |-> ""]

\* where a priced run on the chunks chs stands after its start event
RECURSIVE RunOn(_, _)
RunOn(st, chs) ==
  IF chs = <<>> THEN st ELSE RunOn(ProcessChunk(st, Head(chs), 0), Tail(chs))

\* the run of s stands, its chunk log and warnings apart, where a run that
\* received the chunks chs stands
StandsAsOn(s, chs) ==
  LET ref == RunOn(FreshSt, chs) IN
  /\ currentBlock[s] = ref.currentBlock
  /\ StripContentTs(output[s].content) = StripContentTs(ref.content)
  /\ output[s].stopReason = ref.stopReason
  /\ output[s].usage = ref.usage
  /\ IF pc[s] = "reading"
       THEN StripTs(stream[s]) = StripTs(ref.events)
       ELSE StripTs(stream[s]) =
              StripTs(Append(Terminal(CloseRemaining(ref)).events, EndCall))

\* the chunks of s that threw
Thrown(s) == SelectSeq(chunks[s], LAMBDA c : ChunkThrew(c, model[s]))

\* C39 as stated: a chunk whose processing throws leaves what its parts
\* before the throw produced and nothing else, none of its finishReason and
\* usageMetadata; the run goes on as if the chunk had ended there.
C39_ThrowAbsorbed ==
  \A s \in Streams :
    ReadingOrDone(s) =>
      /\ StandsAsOn(s, [i \in 1..Len(chunks[s]) |->
                          IF ChunkThrew(chunks[s][i], model[s])
                            THEN CutAtThrow(chunks[s][i]) ELSE chunks[s][i]])
      /\ warnings[s] = Len(Thrown(s))

\* C39 (amended): a chunk whose processing throws leaves what it did before
\* the throw and nothing else.  When a part throws, that is what the parts
\* before it produced: the remaining parts, the finishReason and the
\* usageMetadata are not applied.  When the cost function throws, the parts,
\* the finishReason and the token counts of the chunk have all been applied.
\* Either way one warning is given, at most one block is open (the last
\* entry), and the run goes on with the next line to its normal end.
C39_ThrowAbsorbedWhereItThrew ==
  \A s \in Streams :
    ReadingOrDone(s) =>
      /\ StandsAsOn(s, [i \in 1..Len(chunks[s]) |->
                          IF FirstThrow(chunks[s][i].parts) > 0
                            THEN CutAtThrow(chunks[s][i]) ELSE chunks[s][i]])
      /\ warnings[s] = Len(Thrown(s))
      /\ currentBlock[s] # 0 => currentBlock[s] = Len(output[s].content)

\* a run that ended normally after a chunk that threw at a part and a chunk
\* that threw at the cost function
C39_Witness ==
  \E s \in Streams :
    /\ impl = "sse" /\ EndedNormally(s)
    /\ Len(chunks[s]) = 2
    /\ FirstThrow(chunks[s][1].parts) > 1
    /\ FirstThrow(chunks[s][2].parts) = 0
    /\ ChunkThrew(chunks[s][2], model[s])
    /\ warnings[s] = 2
    /\ Len(output[s].content) = 3
    /\ TerminalOf(stream[s]).type = "done"

(***************************************************************************)
(* The counter values of the synthesized ids of all the streams.           *)
(***************************************************************************)
\* C40: the counter values carried by the synthesized ids of all the
\* streams are pairwise distinct, within a stream and across streams,
\* however the calls interleave: each is a value the counter took, and the
\* counter stands at the number of ids synthesized so far (it is
\* incremented once per id, and never reset or decremented).
C40_CounterValuesDistinct ==
  LET Ns(s) == SynthCounters(output[s].content)
      Total == Len(Flatten([i \in 1..2 |-> Ns(IF i = 1 THEN "s1" ELSE "s2")]))
  IN /\ \A s \in Streams, t \in Streams :
          \A i \in 1..Len(Ns(s)) : \A j \in 1..Len(Ns(t)) :
            (s # t \/ i # j) => Ns(s)[i] # Ns(t)[j]
     /\ \A s \in Streams : \A i \in 1..Len(Ns(s)) : Ns(s)[i] \in 1..toolCallCounter
     /\ toolCallCounter = Total

\* the ids synthesized for one stream lie between those of the other
C40_Witness ==
  /\ SynthCounters(output["s1"].content) = <<1, 3>>
  /\ SynthCounters(output["s2"].content) = <<2>>

====
